---- MODULE Spec2Model ----
(***************************************************************************)
(* Model of the structural diff engine of the JSON Diff Checker            *)
(* (src/src/ArrayDiffChecker.tsx, src/src/ObjectDiffChecker.tsx).          *)
(*                                                                         *)
(* JavaScript strings (input texts, canonical keys, object keys, paths,    *)
(* messages) are sequences of one-character strings, so that quoting,      *)
(* escaping and concatenation are computed and not assumed.                *)
(* JavaScript arrays are 0-based; sequences here are 1-based and every     *)
(* index that reaches a path is converted back to the 0-based index.       *)
(***************************************************************************)
EXTENDS Integers, Sequences, FiniteSets, TLC

VARIABLES
    active,          \* which machine this behaviour runs: "array" (ArrayDiffChecker),
                     \* "object" (ObjectDiffChecker), or a function under test:
                     \* "diff" (deepDiff), "align" (the loop of diffArrays), "key"
    va, vb,          \* the two Values handed to the function under test
    hpc,             \* its position: "input", "loop" or "done"
    res,             \* the DiffResult returned for (va, vb), or NoResult
    ckeys,           \* the canonical keys [a, b] of va and vb, or NoResult
    li,              \* diffArrays: the loop variable i of the alignment loop (1-based)
    usedB,           \* diffArrays: the set usedB (1-based indices of b)
    diffs,           \* diffArrays: the DiffResult accumulated so far
    array1, array2,  \* ArrayDiffChecker: the texts of the two input fields
    results,         \* ArrayDiffChecker: the AnalysisResults, or NoResult
    error,           \* ArrayDiffChecker: the error, or NoError
    raw1, raw2,      \* ObjectDiffChecker: the texts of the two input fields
    oresults,        \* ObjectDiffChecker: the DiffResult, or NoResult
    parseError,      \* ObjectDiffChecker: the error, or NoError
    wasSorted        \* ObjectDiffChecker: key order was normalised

fnVars == <<va, vb, hpc, res, ckeys, li, usedB, diffs>>
arrVars == <<array1, array2, results, error>>
objVars == <<raw1, raw2, oresults, parseError, wasSorted>>
vars == <<active, va, vb, hpc, res, ckeys, li, usedB, diffs, array1, array2, results,
          error, raw1, raw2, oresults, parseError, wasSorted>>

NoResult == [t |-> "none"]
NoError == [t |-> "noerror"]
\* an Error with its message
Err(msg) == [t |-> "error", message |-> msg]

(* Characters and strings *)

\* The printable ASCII characters (but the grave accent) in code-unit order,
\* the order Array.prototype.sort() compares strings by.
CharOrder ==
    <<" ", "!", "\"", "#", "$", "%", "&", "'", "(", ")", "*", "+", ",", "-",
      ".", "/", "0", "1", "2", "3", "4", "5", "6", "7", "8", "9", ":", ";",
      "<", "=", ">", "?", "@", "A", "B", "C", "D", "E", "F", "G", "H", "I",
      "J", "K", "L", "M", "N", "O", "P", "Q", "R", "S", "T", "U", "V", "W",
      "X", "Y", "Z", "[", "\\", "]", "^", "_", "a", "b", "c", "d", "e",
      "f", "g", "h", "i", "j", "k", "l", "m", "n", "o", "p", "q", "r", "s",
      "t", "u", "v", "w", "x", "y", "z", "{", "|", "}", "~">>

CodeOf(c) == CHOOSE i \in 1..Len(CharOrder) : CharOrder[i] = c

\* a < b for two strings, by code units (the default sort() order)
RECURSIVE StrLess(_, _)
StrLess(a, b) ==
    IF b = <<>> THEN FALSE
    ELSE IF a = <<>> THEN TRUE
    ELSE IF a[1] = b[1] THEN StrLess(Tail(a), Tail(b))
    ELSE CodeOf(a[1]) < CodeOf(b[1])

DigitChars == <<"0", "1", "2", "3", "4", "5", "6", "7", "8", "9">>

\* String(n) for an integer n >= 0
RECURSIVE Dec(_)
Dec(n) == IF n < 10 THEN <<DigitChars[n + 1]>>
          ELSE Dec(n \div 10) \o <<DigitChars[(n % 10) + 1]>>

\* String(n) for any integer
NumStr(n) == IF n < 0 THEN <<"-">> \o Dec(0 - n) ELSE Dec(n)

\* arr.join(sep) for a sequence of strings
RECURSIVE Join(_, _)
Join(parts, sep) ==
    IF parts = <<>> THEN <<>>
    ELSE IF Len(parts) = 1 THEN parts[1]
    ELSE parts[1] \o sep \o Join(Tail(parts), sep)

\* Array.prototype.sort() on a sequence of strings (insertion sort)
RECURSIVE InsertSorted(_, _)
InsertSorted(s, sorted) ==
    IF sorted = <<>> THEN <<s>>
    ELSE IF StrLess(s, sorted[1]) THEN <<s>> \o sorted
    ELSE <<sorted[1]>> \o InsertSorted(s, Tail(sorted))

\* a sort() that leaves the strings in the order given
SortStringsKeepOrder(ss) == ss
RECURSIVE SortStrings(_)
SortStrings(ss) ==
    IF ss = <<>> THEN <<>>
    ELSE InsertSorted(ss[Len(ss)], SortStrings(SubSeq(ss, 1, Len(ss) - 1)))

SeqToSet(s) == {s[i] : i \in 1..Len(s)}

(* Values: what JSON.parse / revive / eval hand to the engine *)

Null == [t |-> "null"]
Undefined == [t |-> "undefined"]
NaN == [t |-> "nan"]
PosInfinity == [t |-> "inf"]
NegInfinity == [t |-> "neginf"]
Bool(b) == [t |-> "bool", b |-> b]
Num(n) == [t |-> "num", n |-> n]
Str(s) == [t |-> "str", s |-> s]
Arr(e) == [t |-> "arr", e |-> e]
\* k: the keys in insertion order (Object.keys), v: their values
Obj(k, v) == [t |-> "obj", k |-> k, v |-> v]

IsArray(v) == v.t = "arr"

isPlainObj(v) == v.t = "obj"

isPrimitive(v) == v.t \notin {"arr", "obj"}

\* key in obj
HasKey(o, key) == key \in SeqToSet(o.k)

\* obj[key], undefined when the key is absent
Get(o, key) ==
    IF HasKey(o, key)
    THEN o.v[CHOOSE i \in 1..Len(o.k) : o.k[i] = key]
    ELSE Undefined

(* Canonical key *)

\* JSON.stringify of a string: quoted, with " and \ escaped
RECURSIVE EscapeChars(_)
EscapeChars(s) ==
    IF s = <<>> THEN <<>>
    ELSE (IF s[1] \in {"\"", "\\"} THEN <<"\\", s[1]>> ELSE <<s[1]>>)
         \o EscapeChars(Tail(s))

\* a JSON.stringify of a string that leaves the quotes out
JsonQuoteBare(s) == EscapeChars(s)
JsonQuote(s) == <<"\"">> \o EscapeChars(s) \o <<"\"">>

\* JSON.stringify(v) ?? "null" for the values that reach the last line of
\* stableStringify
JsonScalar(v) ==
    CASE v.t = "null" -> <<"n", "u", "l", "l">>
      [] v.t = "bool" -> IF v.b THEN <<"t", "r", "u", "e">>
                         ELSE <<"f", "a", "l", "s", "e">>
      [] v.t = "num" -> NumStr(v.n)
      [] v.t = "str" -> JsonQuote(v.s)
      [] OTHER -> <<"n", "u", "l", "l">>

RECURSIVE stableStringify(_)
RECURSIVE StringifyAll(_)
RECURSIVE StringifyFields(_, _)

StringifyAll(es) ==
    IF es = <<>> THEN <<>>
    ELSE <<stableStringify(es[1])>> \o StringifyAll(Tail(es))

StringifyFields(o, keys) ==
    IF keys = <<>> THEN <<>>
    ELSE <<JsonQuote(keys[1]) \o <<":">> \o stableStringify(Get(o, keys[1]))>>
         \o StringifyFields(o, Tail(keys))

stableStringify(v) ==
    IF v.t = "undefined" THEN <<"_", "_", "u", "n", "d", "e", "f", "i", "n", "e", "d", "_", "_">>
    ELSE IF v.t = "nan" THEN <<"_", "_", "N", "a", "N", "_", "_">>
    ELSE IF v.t = "inf" THEN <<"_", "_", "I", "n", "f", "i", "n", "i", "t", "y", "_", "_">>
    ELSE IF v.t = "neginf" THEN <<"_", "_", "-", "I", "n", "f", "i", "n", "i", "t", "y", "_", "_">>
    ELSE IF IsArray(v) THEN <<"[">> \o Join(StringifyAll(v.e), <<",">>) \o <<"]">>
    ELSE IF isPlainObj(v)
         THEN <<"{">> \o Join(StringifyFields(v, SortStrings(v.k)), <<",">>) \o <<"}">>
    ELSE JsonScalar(v)

sortKey(v) == stableStringify(v)

(* Deep diff engine *)

EmptyDiff == [added |-> <<>>, removed |-> <<>>, changed |-> <<>>, same |-> <<>>]

\* diffs.added.push(...n.added); ... for the four categories
Merge(d, n) ==
    [added |-> d.added \o n.added, removed |-> d.removed \o n.removed,
     changed |-> d.changed \o n.changed, same |-> d.same \o n.same]

\* `${path}[${prefix}${i}]` for a 0-based i
IndexPath(path, prefix, i) == path \o <<"[">> \o prefix \o NumStr(i) \o <<"]">>

\* count entries {path: `${path}[${prefix}${start + x}]`, value}, x = 0..count-1
PushN(path, prefix, start, count, value) ==
    [x \in 1..count |-> [path |-> IndexPath(path, prefix, start + x - 1),
                         value |-> value]]

\* the position of key k in a Map<string, {v, n}> kept as a sequence in
\* insertion order, 0 when absent
MapIndex(m, k) ==
    IF \E i \in 1..Len(m) : m[i].k = k
    THEN CHOOSE i \in 1..Len(m) : m[i].k = k
    ELSE 0

\* for (const v of a) { const k = sortKey(v); const e = countA.get(k);
\*                      e ? e.n++ : countA.set(k, { v, n: 1 }); }
RECURSIVE CountMap(_, _, _)
CountMap(arr, i, m) ==
    IF i > Len(arr) THEN m
    ELSE LET k == sortKey(arr[i])
             idx == MapIndex(m, k)
         IN CountMap(arr, i + 1,
                     IF idx # 0 THEN [m EXCEPT ![idx].n = @ + 1]
                     ELSE Append(m, [k |-> k, v |-> arr[i], n |-> 1]))

\* a minimum that takes its first argument
MinOfFirst(x, y) == x
MinOf(x, y) == IF x < y THEN x ELSE y

\* for (const [k, ea] of countA) { ... }: acc = [d, si, ai, ri]
RECURSIVE BagLoopA(_, _, _, _, _)
BagLoopA(countA, countB, path, idx, acc) ==
    IF idx > Len(countA) THEN acc
    ELSE LET ea == countA[idx]
             bi == MapIndex(countB, ea.k)
             sameN == IF bi # 0 THEN MinOf(ea.n, countB[bi].n) ELSE 0
             nAdd == IF bi # 0 /\ countB[bi].n > sameN THEN countB[bi].n - sameN ELSE 0
             d1 == [acc.d EXCEPT
                      !.same = @ \o PushN(path, <<>>, acc.si, sameN, ea.v),
                      !.removed = @ \o PushN(path, <<"-">>, acc.ri, ea.n - sameN, ea.v),
                      !.added = @ \o (IF bi # 0
                                      THEN PushN(path, <<"+">>, acc.ai, nAdd, countB[bi].v)
                                      ELSE <<>>)]
         IN BagLoopA(countA, countB, path, idx + 1,
                     [d |-> d1, si |-> acc.si + sameN, ai |-> acc.ai + nAdd,
                      ri |-> acc.ri + (ea.n - sameN)])

\* a second loop that reports nothing
BagLoopBNone(countA, countB, path, idx, acc) == acc
\* for (const [k, eb] of countB) { if (!countA.has(k)) ... }
RECURSIVE BagLoopB(_, _, _, _, _)
BagLoopB(countA, countB, path, idx, acc) ==
    IF idx > Len(countB) THEN acc
    ELSE LET eb == countB[idx]
             n == IF MapIndex(countA, eb.k) = 0 THEN eb.n ELSE 0
         IN BagLoopB(countA, countB, path, idx + 1,
                     [acc EXCEPT !.d.added = @ \o PushN(path, <<"+">>, acc.ai, n, eb.v),
                                 !.ai = @ + n])

\* the set-based branch of diffArrays
BagDiff(a, b, path) ==
    LET countA == CountMap(a, 1, <<>>)
        countB == CountMap(b, 1, <<>>)
        acc0 == [d |-> EmptyDiff, si |-> 0, ai |-> 0, ri |-> 0]
        acc1 == BagLoopA(countA, countB, path, 1, acc0)
    IN BagLoopB(countA, countB, path, 1, acc1).d

\* an exact-match loop that finds nothing
ExactMatchNone(b, used, ka) == 0
\* an exact-match loop that does not skip the consumed elements of b
ExactMatchAny(b, used, ka) ==
    LET c == {j \in 1..Len(b) : sortKey(b[j]) = ka}
    IN IF c = {} THEN 0 ELSE CHOOSE j \in c : \A j2 \in c : j <= j2
\* the exact-match loop: the first j not in used with sortKey(b[j]) = ka,
\* 0 when there is none (matchedJ = -1)
ExactMatch(b, used, ka) ==
    LET c == {j \in 1..Len(b) : j \notin used /\ sortKey(b[j]) = ka}
    IN IF c = {} THEN 0 ELSE CHOOSE j \in c : \A j2 \in c : j <= j2

idKeys == <<<<"i", "d">>, <<"k", "e", "y">>, <<"n", "a", "m", "e">>, <<"t", "y", "p", "e">>>>

idBonus == 10

\* a score that counts the shared keys and gives no bonus
ScoreSharedKeys(x, y) ==
    IF isPlainObj(x) /\ isPlainObj(y) THEN Cardinality(SeqToSet(x.k) \cap SeqToSet(y.k))
    ELSE 0
\* the score of two same-type composites
Score(x, y) ==
    IF isPlainObj(x) /\ isPlainObj(y)
    THEN Cardinality(SeqToSet(x.k) \cap SeqToSet(y.k))
         + idBonus * Cardinality({i \in 1..Len(idKeys) :
                                    /\ HasKey(x, idKeys[i])
                                    /\ HasKey(y, idKeys[i])
                                    /\ sortKey(Get(x, idKeys[i])) = sortKey(Get(y, idKeys[i]))})
    ELSE IF IsArray(x) /\ IsArray(y)
    THEN Cardinality({k \in 1..MinOf(Len(x.e), Len(y.e)) : sortKey(x.e[k]) = sortKey(y.e[k])})
    ELSE 0

SameType(x, y) == (isPlainObj(x) /\ isPlainObj(y)) \/ (IsArray(x) /\ IsArray(y))

\* a loop that takes no candidate of score 0
RECURSIVE BestMatchPositive(_, _, _, _, _)
BestMatchPositive(x, b, used, j, best) ==
    IF j > Len(b) THEN best
    ELSE IF j \in used \/ ~SameType(x, b[j]) THEN BestMatchPositive(x, b, used, j + 1, best)
    ELSE LET score == Score(x, b[j])
         IN BestMatchPositive(x, b, used, j + 1,
                              IF score > best.score /\ score > 0
                              THEN [j |-> j, score |-> score] ELSE best)
\* a loop that keeps the last of the candidates of the highest score
RECURSIVE BestMatchLast(_, _, _, _, _)
BestMatchLast(x, b, used, j, best) ==
    IF j > Len(b) THEN best
    ELSE IF j \in used \/ ~SameType(x, b[j]) THEN BestMatchLast(x, b, used, j + 1, best)
    ELSE LET score == Score(x, b[j])
         IN BestMatchLast(x, b, used, j + 1,
                          IF score >= best.score THEN [j |-> j, score |-> score] ELSE best)
\* the best-structural-match loop over j, best = [j, score], started at
\* [j |-> 0, score |-> -1] (bestJ = -1, bestScore = -1)
RECURSIVE BestMatch(_, _, _, _, _)
BestMatch(x, b, used, j, best) ==
    IF j > Len(b) THEN best
    ELSE IF j \in used \/ ~SameType(x, b[j]) THEN BestMatch(x, b, used, j + 1, best)
    ELSE LET score == Score(x, b[j])
         IN BestMatch(x, b, used, j + 1,
                      IF score > best.score THEN [j |-> j, score |-> score] ELSE best)

\* a last loop that pushes the array b where it should push its element
RECURSIVE LeftoversWhole(_, _, _, _)
LeftoversWhole(b, used, path, j) ==
    IF j > Len(b) THEN <<>>
    ELSE (IF j \notin used
          THEN <<[path |-> IndexPath(path, <<>>, j - 1), value |-> Arr(b)]>>
          ELSE <<>>)
         \o LeftoversWhole(b, used, path, j + 1)
\* for (let j = 0; j < b.length; j++) if (!used.has(j)) diffs.added.push(...)
RECURSIVE Leftovers(_, _, _, _)
Leftovers(b, used, path, j) ==
    IF j > Len(b) THEN <<>>
    ELSE (IF j \notin used
          THEN <<[path |-> IndexPath(path, <<>>, j - 1), value |-> b[j]]>>
          ELSE <<>>)
         \o Leftovers(b, used, path, j + 1)

RECURSIVE deepDiff(_, _, _)
RECURSIVE diffArrays(_, _, _)
RECURSIVE StructLoop(_, _, _, _, _)
RECURSIVE StructIter(_, _, _, _, _)
RECURSIVE ObjLoop(_, _, _, _, _)

\* an iteration that pairs by similarity without marking the partner consumed
StructIterForget(a, b, path, i, st) ==
    LET x == a[i]
        p == IndexPath(path, <<>>, i - 1)
        matchedJ == ExactMatch(b, st.usedB, sortKey(x))
        best == BestMatch(x, b, st.usedB, 1, [j |-> 0, score |-> -1])
    IN IF matchedJ # 0
       THEN [d |-> [st.d EXCEPT !.same = Append(@, [path |-> p, value |-> x])],
             usedB |-> st.usedB \cup {matchedJ}]
       ELSE IF best.j # 0
       THEN [d |-> Merge(st.d, deepDiff(x, b[best.j], p)), usedB |-> st.usedB]
       ELSE [d |-> [st.d EXCEPT !.removed = Append(@, [path |-> p, value |-> x])],
             usedB |-> st.usedB]
\* one iteration of for (let i = 0; i < a.length; i++) { ... } on
\* st = [d, usedB]: exact match, else best structural match, else removed
StructIter(a, b, path, i, st) ==
    LET x == a[i]
        p == IndexPath(path, <<>>, i - 1)
        matchedJ == ExactMatch(b, st.usedB, sortKey(x))
        best == BestMatch(x, b, st.usedB, 1, [j |-> 0, score |-> -1])
    IN IF matchedJ # 0
       THEN [d |-> [st.d EXCEPT !.same = Append(@, [path |-> p, value |-> x])],
             usedB |-> st.usedB \cup {matchedJ}]
       ELSE IF best.j # 0
       THEN [d |-> Merge(st.d, deepDiff(x, b[best.j], p)),
             usedB |-> st.usedB \cup {best.j}]
       ELSE [d |-> [st.d EXCEPT !.removed = Append(@, [path |-> p, value |-> x])],
             usedB |-> st.usedB]

StructLoop(a, b, path, i, st) ==
    IF i > Len(a) THEN st
    ELSE StructLoop(a, b, path, i + 1, StructIter(a, b, path, i, st))

AllPrimitiveOfA(a, b) == \A i \in 1..Len(a) : isPrimitive(a[i])
\* a.every(isPrimitive) && b.every(isPrimitive)
AllPrimitive(a, b) ==
    (\A i \in 1..Len(a) : isPrimitive(a[i])) /\ (\A i \in 1..Len(b) : isPrimitive(b[i]))

diffArrays(a, b, path) ==
    IF AllPrimitive(a, b)
    THEN BagDiff(a, b, path)
    ELSE LET st == StructLoop(a, b, path, 1, [d |-> EmptyDiff, usedB |-> {}])
         IN [st.d EXCEPT !.added = @ \o Leftovers(b, st.usedB, path, 1)]

\* the keys of a alone
UnionKeysOfA(x, y) == x.k
\* new Set([...Object.keys(a), ...Object.keys(b)]) in iteration order
UnionKeys(x, y) == x.k \o SelectSeq(y.k, LAMBDA k : ~HasKey(x, k))

\* for (const key of keys) { ... }
ObjLoop(x, y, path, keys, d) ==
    IF keys = <<>> THEN d
    ELSE LET key == keys[1]
             p == IF path # <<>> THEN path \o <<".">> \o key ELSE key
             d1 == IF ~HasKey(x, key)
                   THEN [d EXCEPT !.added = Append(@, [path |-> p, value |-> Get(y, key)])]
                   ELSE IF ~HasKey(y, key)
                   THEN [d EXCEPT !.removed = Append(@, [path |-> p, value |-> Get(x, key)])]
                   ELSE Merge(d, deepDiff(Get(x, key), Get(y, key), p))
         IN ObjLoop(x, y, path, Tail(keys), d1)

RootPath == <<"(", "r", "o", "o", "t", ")">>

\* a deepDiff that reports the path as given, empty at the root
deepDiffNoRoot(a, b, path) ==
    IF IsArray(a) /\ IsArray(b) THEN diffArrays(a.e, b.e, path)
    ELSE IF isPlainObj(a) /\ isPlainObj(b) THEN ObjLoop(a, b, path, UnionKeys(a, b), EmptyDiff)
    ELSE IF sortKey(a) # sortKey(b)
    THEN [EmptyDiff EXCEPT !.changed = <<[path |-> path, from |-> a, to |-> b]>>]
    ELSE [EmptyDiff EXCEPT !.same = <<[path |-> path, value |-> a]>>]
deepDiff(a, b, path) ==
    IF IsArray(a) /\ IsArray(b) THEN diffArrays(a.e, b.e, path)
    ELSE IF isPlainObj(a) /\ isPlainObj(b) THEN ObjLoop(a, b, path, UnionKeys(a, b), EmptyDiff)
    ELSE IF sortKey(a) # sortKey(b)
    THEN [EmptyDiff EXCEPT !.changed = <<[path |-> IF path # <<>> THEN path ELSE RootPath,
                                          from |-> a, to |-> b]>>]
    ELSE [EmptyDiff EXCEPT !.same = <<[path |-> IF path # <<>> THEN path ELSE RootPath,
                                       value |-> a]>>]

(* Parser: JSON.parse, the relaxed-syntax normalisation and the evaluation *)
(* of a literal expression, on texts as character sequences.  Numbers are  *)
(* integers: the texts considered hold no fraction and no exponent.        *)

Fail == [ok |-> FALSE]

\* the element of a singleton set: Only({e(x) : x \in {d}}) is e with d
\* computed once and named x (const x = d)
Only(S) == CHOOSE v \in S : TRUE

IsWs(c) == c \in {" ", "\n", "\t", "\r"}

LetterChars ==
    {"a", "b", "c", "d", "e", "f", "g", "h", "i", "j", "k", "l", "m", "n", "o",
     "p", "q", "r", "s", "t", "u", "v", "w", "x", "y", "z", "A", "B", "C", "D",
     "E", "F", "G", "H", "I", "J", "K", "L", "M", "N", "O", "P", "Q", "R", "S",
     "T", "U", "V", "W", "X", "Y", "Z"}

\* [a-zA-Z_$]
IsIdStart(c) == c \in LetterChars \cup {"_", "$"}

\* [a-zA-Z0-9_$]
IsIdChar(c) == IsIdStart(c) \/ c \in SeqToSet(DigitChars)

DigitVal(c) == (CHOOSE i \in 1..10 : DigitChars[i] = c) - 1

\* the index after \s* matched greedily from i
RECURSIVE SkipWs(_, _)
SkipWs(s, i) == IF i <= Len(s) /\ IsWs(s[i]) THEN SkipWs(s, i + 1) ELSE i

\* the index after [a-zA-Z0-9_$]* matched greedily from i
RECURSIVE SkipId(_, _)
SkipId(s, i) == IF i <= Len(s) /\ IsIdChar(s[i]) THEN SkipId(s, i + 1) ELSE i

\* the text holds lit at index i
LitAt(s, i, lit) == i + Len(lit) - 1 <= Len(s) /\ SubSeq(s, i, i + Len(lit) - 1) = lit

\* str.trim()
RECURSIVE TrimEnd(_)
TrimEnd(s) == IF s # <<>> /\ IsWs(s[Len(s)]) THEN TrimEnd(SubSeq(s, 1, Len(s) - 1)) ELSE s

Trim(s) == LET i == SkipWs(s, 1) IN TrimEnd(SubSeq(s, i, Len(s)))

\* a string literal whose opening quote q is at i - 1: [ok, v, i]
RECURSIVE ScanString(_, _, _, _)
ScanString(s, i, q, acc) ==
    IF i > Len(s) THEN Fail
    ELSE IF s[i] = q THEN [ok |-> TRUE, v |-> Str(acc), i |-> i + 1]
    ELSE IF s[i] \in {"\n", "\t", "\r"} THEN Fail
    ELSE IF s[i] = "\\"
         THEN IF i + 1 <= Len(s) /\ s[i + 1] \in {"\"", "\\", "/", "'"} /\ (s[i + 1] # "'" \/ q = "'")
              THEN ScanString(s, i + 2, q, Append(acc, s[i + 1]))
              ELSE IF i + 1 <= Len(s) /\ s[i + 1] = "n"
              THEN ScanString(s, i + 2, q, Append(acc, "\n"))
              ELSE Fail
    ELSE ScanString(s, i + 1, q, Append(acc, s[i]))

\* the digits of a number from i: [ok, v, i]
RECURSIVE ScanDigits(_, _, _)
ScanDigits(s, i, n) ==
    IF i <= Len(s) /\ s[i] \in SeqToSet(DigitChars)
    THEN ScanDigits(s, i + 1, 10 * n + DigitVal(s[i]))
    ELSE [ok |-> TRUE, v |-> n, i |-> i]

\* an integer literal at i: -?(0|[1-9][0-9]*), not followed by a digit,
\* a fraction or an exponent
ScanNumber(s, i) ==
    LET neg == i <= Len(s) /\ s[i] = "-"
        j == IF neg THEN i + 1 ELSE i
    IN IF j > Len(s) \/ s[j] \notin SeqToSet(DigitChars) THEN Fail
       ELSE LET r == IF s[j] = "0" THEN [ok |-> TRUE, v |-> 0, i |-> j + 1]
                     ELSE ScanDigits(s, j, 0)
            IN IF r.i <= Len(s) /\ s[r.i] \in SeqToSet(DigitChars) \cup {".", "e", "E"}
               THEN Fail
               ELSE [ok |-> TRUE, v |-> Num(IF neg THEN 0 - r.v ELSE r.v), i |-> r.i]

\* obj[key] = v: a repeated key keeps its place and takes the new value
\* a key that is an array index: a decimal numeral without a leading zero
IsIndexKey(key) ==
    /\ key # <<>>
    /\ \A i \in 1..Len(key) : key[i] \in SeqToSet(DigitChars)
    /\ Len(key) = 1 \/ key[1] # "0"

\* a < b for two array-index keys, as numbers
IndexLess(a, b) == Len(a) < Len(b) \/ (Len(a) = Len(b) /\ StrLess(a, b))

\* the place of a new key among the own keys of an object (Object.keys):
\* array-index keys come first, in ascending order, and the other keys
\* follow in the order in which they were added
KeyPlace(keys, key) ==
    IF IsIndexKey(key)
    THEN 1 + Cardinality({i \in 1..Len(keys) : IsIndexKey(keys[i]) /\ IndexLess(keys[i], key)})
    ELSE Len(keys) + 1

InsertAt(s, n, x) == SubSeq(s, 1, n - 1) \o <<x>> \o SubSeq(s, n, Len(s))

\* o[key] = v
SetKey(o, key, v) ==
    IF HasKey(o, key)
    THEN [o EXCEPT !.v[CHOOSE i \in 1..Len(o.k) : o.k[i] = key] = v]
    ELSE LET n == KeyPlace(o.k, key) IN Obj(InsertAt(o.k, n, key), InsertAt(o.v, n, v))

\* for (const key of keys) result[key] = vals[...]
RECURSIVE SetAll(_, _, _, _)
SetAll(keys, vals, i, result) ==
    IF i > Len(keys) THEN result
    ELSE SetAll(keys, vals, i + 1, SetKey(result, keys[i], vals[i]))

RECURSIVE ParseValue(_, _, _)
RECURSIVE ParseElements(_, _, _, _)
RECURSIVE ParseMembers(_, _, _, _)

\* the value at i (after white space): [ok, v, i].  js = FALSE is the JSON
\* grammar; js = TRUE is the grammar of a JavaScript literal expression:
\* also single-quoted strings, identifier keys, a trailing comma, undefined,
\* NaN, Infinity and -Infinity.
ParseValue(s, i0, js) ==
    LET i == SkipWs(s, i0)
    IN IF i > Len(s) THEN Fail
       ELSE IF s[i] = "[" THEN ParseElements(s, i + 1, js, <<>>)
       ELSE IF s[i] = "{" THEN ParseMembers(s, i + 1, js, Obj(<<>>, <<>>))
       ELSE IF s[i] = "\"" \/ (js /\ s[i] = "'") THEN ScanString(s, i + 1, s[i], <<>>)
       ELSE IF LitAt(s, i, <<"n", "u", "l", "l">>) /\ SkipId(s, i) = i + 4
            THEN [ok |-> TRUE, v |-> Null, i |-> i + 4]
       ELSE IF LitAt(s, i, <<"t", "r", "u", "e">>) /\ SkipId(s, i) = i + 4
            THEN [ok |-> TRUE, v |-> Bool(TRUE), i |-> i + 4]
       ELSE IF LitAt(s, i, <<"f", "a", "l", "s", "e">>) /\ SkipId(s, i) = i + 5
            THEN [ok |-> TRUE, v |-> Bool(FALSE), i |-> i + 5]
       ELSE IF js /\ LitAt(s, i, <<"u", "n", "d", "e", "f", "i", "n", "e", "d">>) /\ SkipId(s, i) = i + 9
            THEN [ok |-> TRUE, v |-> Undefined, i |-> i + 9]
       ELSE IF js /\ LitAt(s, i, <<"N", "a", "N">>) /\ SkipId(s, i) = i + 3
            THEN [ok |-> TRUE, v |-> NaN, i |-> i + 3]
       ELSE IF js /\ LitAt(s, i, <<"I", "n", "f", "i", "n", "i", "t", "y">>) /\ SkipId(s, i) = i + 8
            THEN [ok |-> TRUE, v |-> PosInfinity, i |-> i + 8]
       ELSE IF js /\ LitAt(s, i, <<"-", "I", "n", "f", "i", "n", "i", "t", "y">>) /\ SkipId(s, i + 1) = i + 9
            THEN [ok |-> TRUE, v |-> NegInfinity, i |-> i + 9]
       ELSE ScanNumber(s, i)

\* the elements of an array literal after "[" or after a comma: [ok, v, i]
ParseElements(s, i0, js, acc) ==
    LET i == SkipWs(s, i0)
    IN IF i > Len(s) THEN Fail
       ELSE IF s[i] = "]" /\ (acc = <<>> \/ js)
            THEN [ok |-> TRUE, v |-> Arr(acc), i |-> i + 1]
       ELSE LET r == ParseValue(s, i, js)
                j == IF r.ok THEN SkipWs(s, r.i) ELSE 0
            IN IF ~r.ok \/ j > Len(s) THEN Fail
               ELSE IF s[j] = "]" THEN [ok |-> TRUE, v |-> Arr(Append(acc, r.v)), i |-> j + 1]
               ELSE IF s[j] = "," THEN ParseElements(s, j + 1, js, Append(acc, r.v))
               ELSE Fail

\* the key at i: a double-quoted string; in JavaScript also a single-quoted
\* string or an identifier
ParseKey(s, i, js) ==
    IF s[i] = "\"" \/ (js /\ s[i] = "'") THEN ScanString(s, i + 1, s[i], <<>>)
    ELSE IF js /\ IsIdStart(s[i])
    THEN [ok |-> TRUE, v |-> Str(SubSeq(s, i, SkipId(s, i) - 1)), i |-> SkipId(s, i)]
    ELSE Fail

\* the members of an object literal after "{" or after a comma: [ok, v, i]
ParseMembers(s, i0, js, acc) ==
    LET i == SkipWs(s, i0)
    IN IF i > Len(s) THEN Fail
       ELSE IF s[i] = "}" /\ (acc.k = <<>> \/ js)
            THEN [ok |-> TRUE, v |-> acc, i |-> i + 1]
       ELSE LET k == ParseKey(s, i, js)
                c == IF k.ok THEN SkipWs(s, k.i) ELSE 0
                r == IF k.ok /\ c <= Len(s) /\ s[c] = ":" THEN ParseValue(s, c + 1, js) ELSE Fail
                j == IF r.ok THEN SkipWs(s, r.i) ELSE 0
            IN IF ~r.ok \/ j > Len(s) THEN Fail
               ELSE IF s[j] = "}" THEN [ok |-> TRUE, v |-> SetKey(acc, k.v.s, r.v), i |-> j + 1]
               ELSE IF s[j] = "," THEN ParseMembers(s, j + 1, js, SetKey(acc, k.v.s, r.v))
               ELSE Fail

\* the whole text is one value of the grammar: [ok, v]
ParseWhole(s, js) ==
    LET r == ParseValue(s, 1, js)
    IN IF r.ok /\ SkipWs(s, r.i) = Len(s) + 1 THEN [ok |-> TRUE, v |-> r.v] ELSE Fail

\* JSON.parse(s): Fail when it throws
JSONparse(s) == ParseWhole(s, FALSE)

\* Function('"use strict"; return (' + s + ')')() for a text that is a
\* literal expression; Fail when it throws.  The message the engine gives is
\* EvalErrorMessage.
EvalLiteral(s) == ParseWhole(s, TRUE)

EvalErrorMessage == "Unexpected token"

(* The regular-expression replacements of preprocessJS and smartParse.     *)
(* Each MatchX(s, i) is the index after the match that starts at i, or 0;  *)
(* each ReplaceX(s, i) is s.replace(/X/g, ...) from index i on.            *)

UndefSentinel == <<"\"", "_", "_", "U", "N", "D", "E", "F", "I", "N", "E", "D", "_", "_", "\"">>

\* (?=\s*[...]) at i
LookAhead(s, i, closers) ==
    LET m == SkipWs(s, i) IN m <= Len(s) /\ s[m] \in closers

\* /:\s*undefined(?=\s*[,}\]])/ , /,\s*undefined(?=\s*[,\]])/ and
\* /\[\s*undefined(?=\s*[,\]])/ : lead, \s*, undefined, look-ahead
MatchUndef(s, i, lead, closers) ==
    IF s[i] # lead THEN 0
    ELSE LET j == SkipWs(s, i + 1)
         IN IF LitAt(s, j, <<"u", "n", "d", "e", "f", "i", "n", "e", "d">>) /\ LookAhead(s, j + 9, closers) THEN j + 9 ELSE 0

RECURSIVE ReplaceUndef(_, _, _, _, _)
ReplaceUndef(s, i, lead, closers, with) ==
    IF i > Len(s) THEN <<>>
    ELSE LET e == MatchUndef(s, i, lead, closers)
         IN IF e # 0 THEN with \o ReplaceUndef(s, e, lead, closers, with)
            ELSE <<s[i]>> \o ReplaceUndef(s, i + 1, lead, closers, with)

\* /(?<=\[)\s*undefined(?=\s*\])/
MatchUndefAlone(s, i) ==
    IF i = 1 \/ s[i - 1] # "[" THEN 0
    ELSE LET j == SkipWs(s, i)
         IN IF LitAt(s, j, <<"u", "n", "d", "e", "f", "i", "n", "e", "d">>) /\ LookAhead(s, j + 9, {"]"}) THEN j + 9 ELSE 0

RECURSIVE ReplaceUndefAlone(_, _)
ReplaceUndefAlone(s, i) ==
    IF i > Len(s) THEN <<>>
    ELSE LET e == MatchUndefAlone(s, i)
         IN IF e # 0 THEN UndefSentinel \o ReplaceUndefAlone(s, e)
            ELSE <<s[i]>> \o ReplaceUndefAlone(s, i + 1)

\* s.replace(/'/g, '"')
ReplaceQuotes(s) == [i \in 1..Len(s) |-> IF s[i] = "'" THEN "\"" ELSE s[i]]

\* s.replace(/([{,]\s*)([a-zA-Z_$][a-zA-Z0-9_$]*)(\s*:)/g, '$1"$2"$3')
RECURSIVE QuoteKeys(_, _)
QuoteKeys(s, i) ==
    IF i > Len(s) THEN <<>>
    ELSE LET j == SkipWs(s, i + 1)
             k == IF j <= Len(s) /\ IsIdStart(s[j]) THEN SkipId(s, j) ELSE 0
             m == IF k # 0 THEN SkipWs(s, k) ELSE 0
         IN IF s[i] \in {"{", ","} /\ k # 0 /\ m <= Len(s) /\ s[m] = ":"
            THEN SubSeq(s, i, j - 1) \o <<"\"">> \o SubSeq(s, j, k - 1) \o <<"\"">>
                 \o SubSeq(s, k, m) \o QuoteKeys(s, m + 1)
            ELSE <<s[i]>> \o QuoteKeys(s, i + 1)

\* s.replace(/,(\s*[}\]])/g, '$1')
DropTrailingCommasNone(s, i) == s
RECURSIVE DropTrailingCommas(_, _)
DropTrailingCommas(s, i) ==
    IF i > Len(s) THEN <<>>
    ELSE LET m == SkipWs(s, i + 1)
         IN IF s[i] = "," /\ m <= Len(s) /\ s[m] \in {"}", "]"}
            THEN SubSeq(s, i + 1, m) \o DropTrailingCommas(s, m + 1)
            ELSE <<s[i]>> \o DropTrailingCommas(s, i + 1)

\* s.replace(/:\s*lit/g, with)
RECURSIVE ReplaceAfterColon(_, _, _, _)
ReplaceAfterColon(s, i, lit, with) ==
    IF i > Len(s) THEN <<>>
    ELSE IF s[i] = ":" /\ LitAt(s, SkipWs(s, i + 1), lit)
    THEN with \o ReplaceAfterColon(s, SkipWs(s, i + 1) + Len(lit), lit, with)
    ELSE <<s[i]>> \o ReplaceAfterColon(s, i + 1, lit, with)

\* s.replace(/:\s*-?Infinity/g, ": null")
RECURSIVE ReplaceAnyInfinity(_, _)
ReplaceAnyInfinity(s, i) ==
    IF i > Len(s) THEN <<>>
    ELSE LET j == SkipWs(s, i + 1)
             e == IF s[i] # ":" THEN 0
                  ELSE IF LitAt(s, j, <<"-", "I", "n", "f", "i", "n", "i", "t", "y">>) THEN j + 9
                  ELSE IF LitAt(s, j, <<"I", "n", "f", "i", "n", "i", "t", "y">>) THEN j + 8
                  ELSE 0
         IN IF e # 0 THEN <<":", " ", "n", "u", "l", "l">> \o ReplaceAnyInfinity(s, e)
            ELSE <<s[i]>> \o ReplaceAnyInfinity(s, i + 1)

preprocessJS(raw) ==
    LET s0 == Trim(raw)
        s1 == ReplaceUndef(s0, 1, ":", {",", "}", "]"}, <<":", " ">> \o UndefSentinel)
        s2 == ReplaceUndef(s1, 1, ",", {",", "]"}, <<",", " ">> \o UndefSentinel)
        s3 == ReplaceUndef(s2, 1, "[", {",", "]"}, <<"[">> \o UndefSentinel)
        s4 == ReplaceUndefAlone(s3, 1)
        s5 == ReplaceQuotes(s4)
        s6 == QuoteKeys(s5, 1)
        s7 == DropTrailingCommas(s6, 1)
        s8 == ReplaceAfterColon(s7, 1, <<"-", "I", "n", "f", "i", "n", "i", "t", "y">>, <<":", " ", "\"", "-", "I", "n", "f", "i", "n", "i", "t", "y", "_", "_", "\"">>)
    IN ReplaceAfterColon(s8, 1, <<"I", "n", "f", "i", "n", "i", "t", "y">>, <<":", " ", "\"", "I", "n", "f", "i", "n", "i", "t", "y", "_", "_", "\"">>)

UNDEF == <<"_", "_", "U", "N", "D", "E", "F", "I", "N", "E", "D", "_", "_">>

RECURSIVE revive(_)
revive(v) ==
    IF v = Str(UNDEF) THEN Undefined
    ELSE IF IsArray(v) THEN Arr([i \in 1..Len(v.e) |-> revive(v.e[i])])
    ELSE IF isPlainObj(v) THEN Obj(v.k, [i \in 1..Len(v.v) |-> revive(v.v[i])])
    ELSE v

\* safeParse(raw): [ok, value, tier], or [ok, msg] when it throws
safeParse(raw) ==
    Only({Only({
        IF trimmed = <<>> THEN [ok |-> FALSE, msg |-> "Empty input."]
        ELSE IF p1.ok /\ IsArray(p1.v) THEN [ok |-> TRUE, value |-> p1.v, tier |-> 1]
        ELSE IF p2.ok /\ IsArray(p2.v) THEN [ok |-> TRUE, value |-> revive(p2.v), tier |-> 2]
        ELSE IF p3.ok /\ IsArray(p3.v) THEN [ok |-> TRUE, value |-> p3.v, tier |-> 3]
        ELSE IF p3.ok THEN [ok |-> FALSE, msg |-> "Invalid format: " \o "Input is not an array."]
        ELSE [ok |-> FALSE, msg |-> "Invalid format: " \o EvalErrorMessage] :
            p1 \in {JSONparse(trimmed)},
            p2 \in {Only({JSONparse(s) : s \in {preprocessJS(trimmed)}})},
            p3 \in {EvalLiteral(trimmed)}}) :
        trimmed \in {Trim(raw)}})

\* the relaxed-syntax rewriting of smartParse (the text handed to the second
\* JSON.parse, and returned as `fixed`)
smartFix(trimmed) ==
    LET s1 == ReplaceQuotes(trimmed)
        s2 == QuoteKeys(s1, 1)
        s3 == DropTrailingCommas(s2, 1)
        s4 == ReplaceAfterColon(s3, 1, <<"u", "n", "d", "e", "f", "i", "n", "e", "d">>, <<":", " ", "n", "u", "l", "l">>)
    IN ReplaceAnyInfinity(s4, 1)

\* smartParse(str): [ok, value, format], or [ok, msg] when it throws
smartParse(str) ==
    Only({Only({
        IF trimmed = <<>> THEN [ok |-> FALSE, msg |-> "Empty input"]
        ELSE IF p1.ok THEN [ok |-> TRUE, value |-> p1.v, format |-> "json"]
        ELSE IF p2.ok THEN [ok |-> TRUE, value |-> p2.v, format |-> "js"]
        ELSE IF p3.ok /\ p3.v.t \in {"arr", "obj"}
             THEN [ok |-> TRUE, value |-> p3.v, format |-> "js-eval"]
        ELSE IF p3.ok
             THEN [ok |-> FALSE,
                   msg |-> "Could not parse input as JSON or JS object: " \o "Not an object"]
        ELSE [ok |-> FALSE,
              msg |-> "Could not parse input as JSON or JS object: " \o EvalErrorMessage] :
            p1 \in {JSONparse(trimmed)},
            p2 \in {Only({JSONparse(s) : s \in {smartFix(trimmed)}})},
            p3 \in {EvalLiteral(trimmed)}}) :
        trimmed \in {Trim(str)}})

(* Duplicate and set analysis (ArrayDiffChecker) *)

\* [...counts.values()].filter((e) => e.count > 1)
findDuplicatesAny(arr) ==
    LET counts == CountMap(arr, 1, <<>>)
    IN [i \in 1..Len(counts) |-> [item |-> counts[i].v, count |-> counts[i].n]]
findDuplicates(arr) ==
    LET counts == CountMap(arr, 1, <<>>)
        dups == SelectSeq(counts, LAMBDA e : e.n > 1)
    IN [i \in 1..Len(dups) |-> [item |-> dups[i].v, count |-> dups[i].n]]

arraysAreIdenticalPrefix(a, b) ==
    \A i \in 1..Len(a) : i <= Len(b) /\ sortKey(a[i]) = sortKey(b[i])
arraysAreIdentical(a, b) ==
    IF Len(a) # Len(b) THEN FALSE
    ELSE \A i \in 1..Len(a) : sortKey(a[i]) = sortKey(b[i])

\* a set of the elements themselves
KeySetOfValues(arr) == {arr[i] : i \in 1..Len(arr)}
\* new Set(arr.map(sortKey))
KeySet(arr) == {sortKey(arr[i]) : i \in 1..Len(arr)}

sameUniqueSetSubset(a, b) ==
    \A k \in KeySet(a) : k \in KeySet(b)
sameUniqueSet(a, b) ==
    IF Cardinality(KeySet(a)) # Cardinality(KeySet(b)) THEN FALSE
    ELSE \A k \in KeySet(a) : k \in KeySet(b)

(* Key-order normalisation (ObjectDiffChecker) *)

RECURSIVE normalizeKeyOrderReversed(_)
normalizeKeyOrderReversed(value) ==
    IF IsArray(value)
    THEN LET n == Len(value.e)
             mapped == [i \in 1..n |-> normalizeKeyOrderReversed(value.e[n + 1 - i])]
         IN [sorted |-> Arr([i \in 1..n |-> mapped[i].sorted]),
             changed |-> \E i \in 1..n : mapped[i].changed]
    ELSE IF isPlainObj(value)
    THEN LET originalKeys == value.k
             sortedKeys == SortStrings(originalKeys)
             keyOrderChanged == \E i \in 1..Len(sortedKeys) : sortedKeys[i] # originalKeys[i]
             fields == [i \in 1..Len(sortedKeys) |->
                           normalizeKeyOrderReversed(Get(value, sortedKeys[i]))]
         IN [sorted |-> SetAll(sortedKeys, [i \in 1..Len(sortedKeys) |-> fields[i].sorted],
                               1, Obj(<<>>, <<>>)),
             changed |-> keyOrderChanged \/ \E i \in 1..Len(sortedKeys) : fields[i].changed]
    ELSE [sorted |-> value, changed |-> FALSE]
RECURSIVE normalizeKeyOrder(_)
normalizeKeyOrder(value) ==
    IF IsArray(value)
    THEN LET mapped == [i \in 1..Len(value.e) |-> normalizeKeyOrder(value.e[i])]
         IN [sorted |-> Arr([i \in 1..Len(value.e) |-> mapped[i].sorted]),
             changed |-> \E i \in 1..Len(value.e) : mapped[i].changed]
    ELSE IF isPlainObj(value)
    THEN LET originalKeys == value.k
             sortedKeys == SortStrings(originalKeys)
             keyOrderChanged == \E i \in 1..Len(sortedKeys) : sortedKeys[i] # originalKeys[i]
             fields == [i \in 1..Len(sortedKeys) |-> normalizeKeyOrder(Get(value, sortedKeys[i]))]
         IN [sorted |-> SetAll(sortedKeys, [i \in 1..Len(sortedKeys) |-> fields[i].sorted],
                               1, Obj(<<>>, <<>>)),
             changed |-> keyOrderChanged \/ \E i \in 1..Len(sortedKeys) : fields[i].changed]
    ELSE [sorted |-> value, changed |-> FALSE]

(* JSON.stringify(value, null, 2) *)

RECURSIVE Spaces(_)
Spaces(n) == IF n = 0 THEN <<>> ELSE <<" ">> \o Spaces(n - 1)

RECURSIVE Pretty(_, _)
RECURSIVE PrettyElements(_, _)
RECURSIVE PrettyMembers(_, _, _)

\* the elements, each on its line; undefined prints as null in an array
PrettyElements(es, ind) ==
    IF es = <<>> THEN <<>>
    ELSE <<Spaces(ind) \o Pretty(es[1], ind)>> \o PrettyElements(Tail(es), ind)

\* the members, each on its line; a member whose value is undefined is left out
PrettyMembers(o, keys, ind) ==
    IF keys = <<>> THEN <<>>
    ELSE (IF Get(o, keys[1]).t = "undefined" THEN <<>>
          ELSE <<Spaces(ind) \o JsonQuote(keys[1]) \o <<":", " ">> \o Pretty(Get(o, keys[1]), ind)>>)
         \o PrettyMembers(o, Tail(keys), ind)

Pretty(v, ind) ==
    IF IsArray(v)
    THEN IF v.e = <<>> THEN <<"[", "]">>
         ELSE <<"[">> \o <<"\n">> \o Join(PrettyElements(v.e, ind + 2), <<",", "\n">>)
              \o <<"\n">> \o Spaces(ind) \o <<"]">>
    ELSE IF isPlainObj(v)
    THEN LET ms == PrettyMembers(v, v.k, ind + 2)
         IN IF ms = <<>> THEN <<"{", "}">>
            ELSE <<"{">> \o <<"\n">> \o Join(ms, <<",", "\n">>) \o <<"\n">> \o Spaces(ind) \o <<"}">>
    ELSE JsonScalar(v)

\* toJson(str): the text, or Fail for null
toJson(str) ==
    Only({IF ~r.ok THEN Fail
          ELSE IF r.format = "js" /\ fixed # <<>> THEN [ok |-> TRUE, v |-> fixed]
          ELSE [ok |-> TRUE, v |-> Pretty(r.value, 0)] :
          r \in {smartParse(str)}, fixed \in {smartFix(Trim(str))}})

(* Inputs of the functions under test *)

MaxBagLen == 3
MaxKeys == 2
MaxStructLen == 2

SeqsUpTo(S, n) == UNION {[1..m -> S] : m \in 0..n}

IsInjective(s) == \A i, j \in 1..Len(s) : s[i] = s[j] => i = j

kId == <<"i", "d">>
kName == <<"n", "a", "m", "e">>
kX == <<"x">>
kY == <<"y">>

\* arrays of scalars, for the set-based branch
BagScalars == {Num(1), Num(2), Str(<<"a">>)}
BagArrays == {Arr(e) : e \in SeqsUpTo(BagScalars, MaxBagLen)}

\* objects of scalars, every insertion order of their keys
ObjKeyPool == {kId, kName, kX}
ObjValPool == {Num(1), Str(<<"a">>)}
KeySeqs == {k \in SeqsUpTo(ObjKeyPool, MaxKeys) : IsInjective(k)}
FlatObjs == UNION {{Obj(k, v) : v \in [1..Len(k) -> ObjValPool]} : k \in KeySeqs}

\* arrays with composite elements, for the alignment branch
ElemPool ==
    {Obj(<<kId, kName>>, <<Num(1), Str(<<"a">>)>>),
     Obj(<<kId, kName>>, <<Num(1), Str(<<"b">>)>>),
     Obj(<<kName, kId>>, <<Str(<<"a">>), Num(1)>>),
     Obj(<<kId, kName>>, <<Num(2), Str(<<"a">>)>>),
     Arr(<<Num(1)>>),
     Num(1)}
StructArrays == {Arr(e) : e \in SeqsUpTo(ElemPool, MaxStructLen)}

Scalars ==
    {Null, Undefined, NaN, PosInfinity, NegInfinity, Bool(TRUE), Bool(FALSE),
     Num(0), Num(-1), Num(12), Str(<<>>), Str(<<"a">>), Str(<<"n", "u", "l", "l">>), Str(<<"1", "2">>)}

\* values of every kind, nested up to three levels
MixedPool ==
    Scalars \cup
    {Arr(<<>>), Obj(<<>>, <<>>),
     Arr(<<Undefined>>), Arr(<<Null>>), Arr(<<NaN, Num(12)>>), Arr(<<Arr(<<>>), Num(1)>>),
     Arr(<<Arr(<<Num(1)>>), Arr(<<Num(2)>>)>>), Arr(<<Arr(<<Num(1), Num(2)>>)>>),
     Arr(<<Obj(<<>>, <<>>), Num(1)>>), Arr(<<Num(2)>>),
     Obj(<<kX>>, <<Undefined>>), Obj(<<kX>>, <<Null>>),
     Obj(<<kX>>, <<Obj(<<kY>>, <<Num(1)>>)>>), Obj(<<kX>>, <<Obj(<<kY>>, <<Num(2)>>)>>),
     Obj(<<kX, kY>>, <<Arr(<<Num(1), Num(1)>>), Num(1)>>),
     Obj(<<kY, kX>>, <<Num(1), Arr(<<Num(1), Num(2)>>)>>),
     Obj(<<kX>>, <<Arr(<<Obj(<<kId, kName>>, <<Num(1), Str(<<"a">>)>>), Num(1)>>)>>),
     Obj(<<kX>>, <<Arr(<<Obj(<<kId, kName>>, <<Num(1), Str(<<"b">>)>>)>>)>>)}

\* the worked examples: [1,2,2,3] against [2,3,3,4]; {x:1,y:2} against
\* {x:1,z:3}; and an element with twelve keys against an element that shares
\* eleven of them and an element that shares only its id
WideKeys == <<<<"a">>, <<"b">>, <<"c">>, <<"d">>, <<"e">>, <<"f">>, <<"g">>, <<"h">>, <<"i">>, <<"j">>, <<"k">>>>
WideA == Arr(<<Obj(<<kId>> \o WideKeys, [i \in 1..12 |-> Num(1)])>>)
WideB == Arr(<<Obj(WideKeys, [i \in 1..11 |-> Num(2)]), Obj(<<kId>>, <<Num(1)>>)>>)
BagExampleA == Arr(<<Num(1), Num(2), Num(2), Num(3)>>)
BagExampleB == Arr(<<Num(2), Num(3), Num(3), Num(4)>>)
ObjExampleA == Obj(<<kX, kY>>, <<Num(1), Num(2)>>)
ObjExampleB == Obj(<<kX, <<"z">>>>, <<Num(1), Num(3)>>)
ExamplePairs ==
    {<<BagExampleA, BagExampleB>>, <<ObjExampleA, ObjExampleB>>, <<WideA, WideB>>,
     <<WideA, WideA>>}

DiffInputs ==
    (BagArrays \X BagArrays) \cup (FlatObjs \X FlatObjs) \cup (StructArrays \X StructArrays)
    \cup (MixedPool \X MixedPool) \cup ExamplePairs

\* arrays of arrays: [[1,2]] against [[2,1],[1,3],[1,2,1]], whose scores are
\* 0, 1 and 2, against [[2,2],[1,3],[1,4]], where two candidates tie, and
\* against [[2,1]], whose score is 0
NestedA == Arr(<<Arr(<<Num(1), Num(2)>>)>>)
NestedB == Arr(<<Arr(<<Num(2), Num(1)>>), Arr(<<Num(1), Num(3)>>), Arr(<<Num(1), Num(2), Num(1)>>)>>)
NestedTie == Arr(<<Arr(<<Num(2), Num(2)>>), Arr(<<Num(1), Num(3)>>), Arr(<<Num(1), Num(4)>>)>>)
NestedZero == Arr(<<Arr(<<Num(2), Num(1)>>)>>)
NestedPairs ==
    {<<NestedA, NestedB>>, <<NestedA, NestedTie>>, <<NestedB, NestedTie>>, <<NestedA, NestedZero>>}
AlignInputs ==
    {p \in (StructArrays \X StructArrays) \cup ExamplePairs \cup NestedPairs :
        IsArray(p[1]) /\ IsArray(p[2]) /\ ~AllPrimitive(p[1].e, p[2].e)}

KeyPool ==
    Scalars \cup FlatObjs \cup
    {Str(<<"_", "_", "u", "n", "d", "e", "f", "i", "n", "e", "d", "_", "_">>), Str(<<"_", "_", "N", "a", "N", "_", "_">>), Str(<<"_", "_", "I", "n", "f", "i", "n", "i", "t", "y", "_", "_">>), Str(<<"_", "_", "-", "I", "n", "f", "i", "n", "i", "t", "y", "_", "_">>),
     Str(<<"\"", "a", "\"">>), Str(<<"\\">>), Num(1), Num(2),
     Obj(<<<<"a">>, <<"b">>>>, <<Num(1), Num(2)>>), Obj(<<<<"b">>, <<"a">>>>, <<Num(2), Num(1)>>),
     Arr(<<>>), Arr(<<Num(1), Num(2)>>), Arr(<<Num(2), Num(1)>>), Arr(<<Undefined>>),
     Arr(<<Obj(<<kId, kName>>, <<Num(1), Str(<<"a">>)>>)>>),
     Arr(<<Obj(<<kName, kId>>, <<Str(<<"a">>), Num(1)>>)>>),
     Obj(<<kX, kY>>, <<Obj(<<kId, kName>>, <<Num(1), Num(2)>>), Num(1)>>),
     Obj(<<kY, kX>>, <<Num(1), Obj(<<kName, kId>>, <<Num(2), Num(1)>>)>>),
     Obj(<<kY, kX>>, <<Num(1), Obj(<<kName, kId>>, <<Num(1), Num(2)>>)>>)}

(* The texts a user types into an input field *)

Texts ==
    {<<>>,
     <<" ", "[", "1", ",", " ", "2", "]", " ">>,
     <<"[", "2", ",", "1", "]">>,
     <<"[", "'", "a", "'", ",", " ", "\"", "b", "\"", "]">>,
     <<"[", "{", "i", "d", ":", "1", ",", "n", "a", "m", "e", ":", "'", "a", "'", ",", "}", ",", "]">>,
     <<"[", "{", "\"", "i", "d", "\"", ":", "1", ",", "\"", "n", "a", "m", "e", "\"", ":", "\"", "b", "\"", "}", "]">>,
     <<"[", "u", "n", "d", "e", "f", "i", "n", "e", "d", ",", " ", "N", "a", "N", "]">>,
     <<"{", "b", ":", "2", ",", " ", "a", ":", "[", "1", "]", "}">>,
     <<"{", "\"", "a", "\"", ":", "[", "1", "]", ",", "\"", "b", "\"", ":", "3", "}">>,
     <<"5">>,
     <<"[", "1", ",">>,
     <<" ">>}

(* State machines *)

InitIdle ==
    /\ va = Null /\ vb = Null /\ hpc = "input" /\ res = NoResult /\ ckeys = NoResult
    /\ li = 1 /\ usedB = {} /\ diffs = EmptyDiff

InitFields ==
    /\ array1 = <<>> /\ array2 = <<>> /\ results = NoResult /\ error = NoError
    /\ raw1 = <<>> /\ raw2 = <<>> /\ oresults = NoResult /\ parseError = NoError
    /\ wasSorted = FALSE

\* the two components as mounted: each holds its own state (useState)
Init == active \in {"array", "object"} /\ InitIdle /\ InitFields

(* ArrayDiffChecker *)

\* onChange of a Textarea: setter(e.target.value); setResults(null)
ChangeArray1(t) ==
    /\ active = "array"
    /\ array1' = t /\ results' = NoResult
    /\ UNCHANGED <<active, fnVars, array2, error, objVars>>

\* an onChange that sets the text and leaves the results in place
ChangeArray2KeepResults(t) ==
    /\ active = "array"
    /\ array2' = t
    /\ UNCHANGED <<active, fnVars, array1, results, error, objVars>>
ChangeArray2(t) ==
    /\ active = "array"
    /\ array2' = t /\ results' = NoResult
    /\ UNCHANGED <<active, fnVars, array1, error, objVars>>

\* onBlur of a Textarea: setter(e.target.value.trim())
BlurArray1 ==
    /\ active = "array"
    /\ array1' = Trim(array1)
    /\ UNCHANGED <<active, fnVars, array2, results, error, objVars>>

BlurArray2 ==
    /\ active = "array"
    /\ array2' = Trim(array2)
    /\ UNCHANGED <<active, fnVars, array1, results, error, objVars>>

\* /(?<![\\])'/.test(val)
hasSingleQuotes(val) ==
    \E i \in 1..Len(val) : val[i] = "'" /\ (i = 1 \/ val[i - 1] # "\\")

\* val.replace(/(?<!\\)'/g, '"')
replaceSingleQuotes(val) ==
    [i \in 1..Len(val) |-> IF val[i] = "'" /\ (i = 1 \/ val[i - 1] # "\\") THEN "\"" ELSE val[i]]

\* the REPLACE button, shown when hasSingleQuotes(value)
ReplaceArray1 ==
    /\ active = "array"
    /\ hasSingleQuotes(array1)
    /\ array1' = replaceSingleQuotes(array1) /\ results' = NoResult
    /\ UNCHANGED <<active, fnVars, array2, error, objVars>>

ReplaceArray2 ==
    /\ active = "array"
    /\ hasSingleQuotes(array2)
    /\ array2' = replaceSingleQuotes(array2) /\ results' = NoResult
    /\ UNCHANGED <<active, fnVars, array1, error, objVars>>

\* the AnalysisResults built from the two parsed arrays
Analysis(arr1, arr2) ==
    [length1 |-> Len(arr1.e), length2 |-> Len(arr2.e),
     uniqueLength1 |-> Cardinality(KeySet(arr1.e)),
     uniqueLength2 |-> Cardinality(KeySet(arr2.e)),
     duplicates1 |-> findDuplicates(arr1.e), duplicates2 |-> findDuplicates(arr2.e),
     areIdentical |-> arraysAreIdentical(arr1.e, arr2.e),
     sameUniqueElements |-> sameUniqueSet(arr1.e, arr2.e),
     diff |-> deepDiff(arr1, arr2, <<>>)]

\* the ANALYZE button, disabled while a field is blank
analyzeArrays ==
    /\ active = "array"
    /\ Trim(array1) # <<>> /\ Trim(array2) # <<>>
    /\ \E p1 \in {safeParse(array1)}, p2 \in {safeParse(array2)} :
          IF ~p1.ok THEN error' = Err(p1.msg) /\ results' = NoResult
          ELSE IF ~p2.ok THEN error' = Err(p2.msg) /\ results' = NoResult
          ELSE error' = NoError /\ results' = Analysis(p1.value, p2.value)
    /\ UNCHANGED <<active, fnVars, array1, array2, objVars>>

(* ObjectDiffChecker *)

\* setRaw of an InputPanel, from onChange: setRaw1(v); setResults(null)
ChangeRaw1(t) ==
    /\ active = "object"
    /\ raw1' = t /\ oresults' = NoResult
    /\ UNCHANGED <<active, fnVars, arrVars, raw2, parseError, wasSorted>>

ChangeRaw2(t) ==
    /\ active = "object"
    /\ raw2' = t /\ oresults' = NoResult
    /\ UNCHANGED <<active, fnVars, arrVars, raw1, parseError, wasSorted>>

\* onBlur: setRaw(e.target.value.trim())
BlurRaw1 ==
    /\ active = "object"
    /\ raw1' = Trim(raw1) /\ oresults' = NoResult
    /\ UNCHANGED <<active, fnVars, arrVars, raw2, parseError, wasSorted>>

BlurRaw2 ==
    /\ active = "object"
    /\ raw2' = Trim(raw2) /\ oresults' = NoResult
    /\ UNCHANGED <<active, fnVars, arrVars, raw1, parseError, wasSorted>>

\* handleAutofix, the button shown when raw.trim() is not empty:
\* const fixed = toJson(raw); if (fixed) setRaw(fixed)
Autofix1 ==
    /\ active = "object"
    /\ Trim(raw1) # <<>>
    /\ \E fixed \in {toJson(raw1)} :
          IF fixed.ok /\ fixed.v # <<>>
          THEN raw1' = fixed.v /\ oresults' = NoResult
          ELSE UNCHANGED <<raw1, oresults>>
    /\ UNCHANGED <<active, fnVars, arrVars, raw2, parseError, wasSorted>>

\* a handleAutofix that sets the text and leaves the results in place
Autofix2KeepResults ==
    /\ active = "object"
    /\ Trim(raw2) # <<>>
    /\ \E fixed \in {toJson(raw2)} :
          IF fixed.ok /\ fixed.v # <<>> THEN raw2' = fixed.v ELSE UNCHANGED raw2
    /\ UNCHANGED <<active, fnVars, arrVars, raw1, oresults, parseError, wasSorted>>
Autofix2 ==
    /\ active = "object"
    /\ Trim(raw2) # <<>>
    /\ \E fixed \in {toJson(raw2)} :
          IF fixed.ok /\ fixed.v # <<>>
          THEN raw2' = fixed.v /\ oresults' = NoResult
          ELSE UNCHANGED <<raw2, oresults>>
    /\ UNCHANGED <<active, fnVars, arrVars, raw1, parseError, wasSorted>>

\* the ANALYZE button, disabled while a field is blank
analyze ==
    /\ active = "object"
    /\ Trim(raw1) # <<>> /\ Trim(raw2) # <<>>
    /\ \E p1 \in {smartParse(raw1)}, p2 \in {smartParse(raw2)} :
       LET n1 == normalizeKeyOrder(p1.value)
           n2 == normalizeKeyOrder(p2.value)
           fail(msg) == parseError' = Err(msg) /\ oresults' = NoResult /\ wasSorted' = FALSE
       IN IF ~p1.ok THEN fail(p1.msg)
          ELSE IF ~p2.ok THEN fail(p2.msg)
          ELSE IF ~isPlainObj(p1.value) /\ ~IsArray(p1.value)
          THEN fail("Object A is not a valid object or array")
          ELSE IF ~isPlainObj(p2.value) /\ ~IsArray(p2.value)
          THEN fail("Object B is not a valid object or array")
          ELSE /\ parseError' = NoError
               /\ wasSorted' = (n1.changed \/ n2.changed)
               /\ oresults' = deepDiff(n1.sorted, n2.sorted, <<>>)
    /\ UNCHANGED <<active, fnVars, arrVars, raw1, raw2>>

Next ==
    \/ \E t \in Texts : ChangeArray1(t)
    \/ \E t \in Texts : ChangeArray2(t)
    \/ BlurArray1
    \/ BlurArray2
    \/ ReplaceArray1
    \/ ReplaceArray2
    \/ analyzeArrays
    \/ \E t \in Texts : ChangeRaw1(t)
    \/ \E t \in Texts : ChangeRaw2(t)
    \/ BlurRaw1
    \/ BlurRaw2
    \/ Autofix1
    \/ Autofix2
    \/ analyze

Spec == Init /\ [][Next]_vars

(* deepDiff applied to a pair of Values *)

InitDiff ==
    /\ active = "diff"
    /\ \E p \in DiffInputs : va = p[1] /\ vb = p[2]
    /\ hpc = "input" /\ res = NoResult /\ ckeys = NoResult
    /\ li = 1 /\ usedB = {} /\ diffs = EmptyDiff
    /\ InitFields

Diff ==
    /\ active = "diff" /\ hpc = "input"
    /\ res' = deepDiff(va, vb, <<>>)
    /\ hpc' = "done"
    /\ UNCHANGED <<active, va, vb, ckeys, li, usedB, diffs, arrVars, objVars>>

NextDiff == Diff

SpecDiff == InitDiff /\ [][NextDiff]_vars

(* The alignment loop of diffArrays(va, vb, "") run one iteration a step *)

InitAlign ==
    /\ active = "align"
    /\ \E p \in AlignInputs : va = p[1] /\ vb = p[2]
    /\ hpc = "loop" /\ res = NoResult /\ ckeys = NoResult
    /\ li = 1 /\ usedB = {} /\ diffs = EmptyDiff
    /\ InitFields

\* one iteration of the loop over a
AlignStep ==
    /\ active = "align" /\ hpc = "loop" /\ li <= Len(va.e)
    /\ LET st == StructIter(va.e, vb.e, <<>>, li, [d |-> diffs, usedB |-> usedB])
       IN diffs' = st.d /\ usedB' = st.usedB
    /\ li' = li + 1
    /\ UNCHANGED <<active, va, vb, hpc, res, ckeys, arrVars, objVars>>

\* the loop over b that reports what was not consumed, and the return
AlignFinish ==
    /\ active = "align" /\ hpc = "loop" /\ li > Len(va.e)
    /\ res' = [diffs EXCEPT !.added = @ \o Leftovers(vb.e, usedB, <<>>, 1)]
    /\ hpc' = "done"
    /\ UNCHANGED <<active, va, vb, ckeys, li, usedB, diffs, arrVars, objVars>>

NextAlign == AlignStep \/ AlignFinish

SpecAlign == InitAlign /\ [][NextAlign]_vars

(* stableStringify applied to a pair of Values *)

InitKey ==
    /\ active = "key"
    /\ va \in KeyPool /\ vb \in KeyPool
    /\ hpc = "input" /\ res = NoResult /\ ckeys = NoResult
    /\ li = 1 /\ usedB = {} /\ diffs = EmptyDiff
    /\ InitFields

Canon ==
    /\ active = "key" /\ hpc = "input"
    /\ ckeys' = [a |-> stableStringify(va), b |-> stableStringify(vb)]
    /\ hpc' = "done"
    /\ UNCHANGED <<active, va, vb, res, li, usedB, diffs, arrVars, objVars>>

NextKey == Canon

SpecKey == InitKey /\ [][NextKey]_vars

(* Properties of the canonical key *)

\* v and w hold the same key/value pairs, whatever the insertion order of
\* the keys, at every depth
RECURSIVE SamePairs(_, _)
SamePairs(v, w) ==
    IF IsArray(v) /\ IsArray(w)
    THEN Len(v.e) = Len(w.e) /\ \A i \in 1..Len(v.e) : SamePairs(v.e[i], w.e[i])
    ELSE IF isPlainObj(v) /\ isPlainObj(w)
    THEN /\ SeqToSet(v.k) = SeqToSet(w.k)
         /\ \A key \in SeqToSet(v.k) : SamePairs(Get(v, key), Get(w, key))
    ELSE v = w

KeysComputed == active = "key" /\ hpc = "done"

\* C6: two values that hold the same key/value pairs in different insertion
\* orders, at any nesting depth, have the same canonical key.
KeyOrderInvariance ==
    (KeysComputed /\ SamePairs(va, vb)) => ckeys.a = ckeys.b

\* two different objects with the same pairs, one of them nested in a field
\* of the other order, have been given their keys
KeyOrderWitness ==
    /\ KeysComputed /\ va # vb /\ SamePairs(va, vb)
    /\ isPlainObj(va) /\ \E i \in 1..Len(va.v) : isPlainObj(va.v[i]) /\ va.v[i] \notin SeqToSet(vb.v)
    /\ ckeys.a = ckeys.b

Sentinels == {Undefined, Null, NaN, PosInfinity, NegInfinity}

\* C7: the canonical keys of Undefined, Null, NaN, PosInfinity and
\* NegInfinity are pairwise distinct, and none is the canonical key of a
\* number or of a string, whatever the string spells.
SentinelDistinctness ==
    (/\ KeysComputed
     /\ va \in Sentinels /\ va # vb
     /\ (vb \in Sentinels \/ vb.t \in {"num", "str"}))
    => ckeys.a # ckeys.b

\* undefined has been keyed against the string "__undefined__"
SentinelWitness ==
    /\ KeysComputed
    /\ va = Undefined /\ vb = Str(ckeys.a)
    /\ ckeys.a = <<"_", "_", "u", "n", "d", "e", "f", "i", "n", "e", "d", "_", "_">> /\ ckeys.b # ckeys.a

(* Properties of deepDiff *)

DiffDone == active = "diff" /\ hpc = "done"

\* the scalars of v
RECURSIVE Leaves(_)
RECURSIVE LeavesOfAll(_)
LeavesOfAll(vs) == IF vs = <<>> THEN 0 ELSE Leaves(vs[1]) + LeavesOfAll(Tail(vs))
Leaves(v) ==
    IF IsArray(v) THEN LeavesOfAll(v.e)
    ELSE IF isPlainObj(v) THEN LeavesOfAll(v.v)
    ELSE 1

\* the units of v: a scalar, or an element of an array, reached through
\* object fields alone
RECURSIVE Units(_)
RECURSIVE UnitsOfAll(_)
UnitsOfAll(vs) == IF vs = <<>> THEN 0 ELSE Units(vs[1]) + UnitsOfAll(Tail(vs))
Units(v) ==
    IF IsArray(v) THEN Len(v.e)
    ELSE IF isPlainObj(v) THEN UnitsOfAll(v.v)
    ELSE 1

NothingDiffers == res.added = <<>> /\ res.removed = <<>> /\ res.changed = <<>>

\* C1 (as stated): deepDiff(v, v) has empty added, removed and changed, and
\* one same entry for every leaf of v.
IdempotencePerLeaf ==
    (DiffDone /\ va = vb) => (NothingDiffers /\ Len(res.same) = Leaves(va))

\* C1 (amended): deepDiff(v, v) has empty added, removed and changed, and one
\* same entry for every unit of v: every scalar and every array element
\* reached through object fields alone; an array element that is itself an
\* object or an array is one entry, whatever it holds.
IdempotencePerUnit ==
    (DiffDone /\ va = vb) => (NothingDiffers /\ Len(res.same) = Units(va))

\* an array of objects has been compared with itself: one entry an element,
\* fewer than its leaves
IdempotenceWitness ==
    /\ DiffDone /\ va = vb /\ IsArray(va) /\ va.e # <<>>
    /\ \A i \in 1..Len(va.e) : isPlainObj(va.e[i])
    /\ NothingDiffers
    /\ Len(res.same) = Len(va.e) /\ Len(res.same) < Leaves(va)

\* C2: the result of deepDiff(a, b) never holds the same path both in added
\* and in removed.
NoPathAddedAndRemoved ==
    DiffDone =>
        \A i \in 1..Len(res.added), j \in 1..Len(res.removed) :
            res.added[i].path # res.removed[j].path

\* the number of elements of arr, and of entries, with canonical key k
Occurrences(arr, k) == Cardinality({i \in 1..Len(arr) : sortKey(arr[i]) = k})
EntriesWithKey(entries, k) ==
    Cardinality({i \in 1..Len(entries) : sortKey(entries[i].value) = k})

Monus(x, y) == IF x > y THEN x - y ELSE 0

ValuesOf(entries) == [i \in 1..Len(entries) |-> entries[i].value]

BagCase == DiffDone /\ IsArray(va) /\ IsArray(vb) /\ AllPrimitive(va.e, vb.e)

\* C3: for two arrays of scalars and every canonical key k, with cA
\* occurrences in a and cB in b, the result holds min(cA, cB) same entries,
\* max(0, cA - cB) removed entries and max(0, cB - cA) added entries whose
\* value has key k, and no changed entry; [1,2,2,3] against [2,3,3,4] gives
\* same 2, 3; removed 1, 2; added 3, 4.
BagCounts ==
    BagCase =>
        /\ res.changed = <<>>
        /\ \A k \in KeySet(va.e) \cup KeySet(vb.e) :
             LET cA == Occurrences(va.e, k)
                 cB == Occurrences(vb.e, k)
             IN /\ EntriesWithKey(res.same, k) = (IF cA < cB THEN cA ELSE cB)
                /\ EntriesWithKey(res.removed, k) = Monus(cA, cB)
                /\ EntriesWithKey(res.added, k) = Monus(cB, cA)
        /\ (va = BagExampleA /\ vb = BagExampleB) =>
             /\ ValuesOf(res.same) = <<Num(2), Num(3)>>
             /\ ValuesOf(res.removed) = <<Num(1), Num(2)>>
             /\ ValuesOf(res.added) = <<Num(3), Num(4)>>

\* a key that occurs more often in a than in b, and at least once in b, has
\* been counted
BagWitness ==
    /\ BagCase
    /\ \E k \in KeySet(va.e) \cap KeySet(vb.e) :
         /\ Occurrences(va.e, k) > Occurrences(vb.e, k)
         /\ EntriesWithKey(res.same, k) = Occurrences(vb.e, k)
         /\ EntriesWithKey(res.removed, k) = Occurrences(va.e, k) - Occurrences(vb.e, k)

\* path is the child path of key, or a path below it
BelongsTo(path, key) ==
    \/ path = key
    \/ /\ Len(path) > Len(key)
       /\ SubSeq(path, 1, Len(key)) = key
       /\ path[Len(key) + 1] \in {".", "["}

Categories == {"added", "removed", "changed", "same"}

\* the entries expected at or below key k at the root
ExpectedOfKey(k) ==
    IF ~HasKey(va, k) THEN [EmptyDiff EXCEPT !.added = <<[path |-> k, value |-> Get(vb, k)]>>]
    ELSE IF ~HasKey(vb, k) THEN [EmptyDiff EXCEPT !.removed = <<[path |-> k, value |-> Get(va, k)]>>]
    ELSE deepDiff(Get(va, k), Get(vb, k), k)

ObjCase == DiffDone /\ isPlainObj(va) /\ isPlainObj(vb)

AlignCase ==
    /\ active = "align" /\ hpc = "loop" /\ li <= Len(va.e)
    /\ isPlainObj(va.e[li])
    /\ \A j \in 1..Len(vb.e) : j \in usedB \/ sortKey(vb.e[j]) # sortKey(va.e[li])

\* x and y hold an identifier-like key with an equal value
SharesIdKey(x, y) ==
    \E i \in 1..Len(idKeys) :
        /\ HasKey(x, idKeys[i]) /\ HasKey(y, idKeys[i])
        /\ sortKey(Get(x, idKeys[i])) = sortKey(Get(y, idKeys[i]))

\* the unconsumed objects of b, and those that share an identifier with x
FreeObjects == {j \in 1..Len(vb.e) : j \notin usedB /\ isPlainObj(vb.e[j])}
IdPartners(x) == {j \in FreeObjects : SharesIdKey(x, vb.e[j])}

\* the iteration pairs a[li] with b[j]: b[j] is consumed and the entries of
\* deepDiff(a[li], b[j]) under [li] are merged, so nothing is reported for
\* the element as a whole
PairedWith(j) ==
    /\ usedB' = usedB \cup {j}
    /\ diffs' = Merge(diffs, deepDiff(va.e[li], vb.e[j], IndexPath(<<>>, <<>>, li - 1)))

\* the shared keys, plus 10 for each identifier-like key with an equal value
ClaimedScore(x, y) ==
    Cardinality(SeqToSet(x.k) \cap SeqToSet(y.k))
    + 10 * Cardinality({i \in 1..Len(idKeys) :
                          /\ HasKey(x, idKeys[i]) /\ HasKey(y, idKeys[i])
                          /\ sortKey(Get(x, idKeys[i])) = sortKey(Get(y, idKeys[i]))})

\* the earliest of the unconsumed objects of b with the highest score
BestPartner(x) ==
    CHOOSE j \in FreeObjects :
        /\ \A j2 \in FreeObjects : ClaimedScore(x, vb.e[j]) >= ClaimedScore(x, vb.e[j2])
        /\ \A j2 \in FreeObjects :
             ClaimedScore(x, vb.e[j2]) = ClaimedScore(x, vb.e[j]) => j <= j2

ExampleA == Arr(<<Obj(<<kId, kName>>, <<Num(1), Str(<<"a">>)>>)>>)
ExampleB == Arr(<<Obj(<<kId, kName>>, <<Num(1), Str(<<"b">>)>>)>>)

\* C5 (as stated): an object element a[i] without an exact match, when b
\* holds an unconsumed object that shares an identifier-like key with an equal
\* value, is paired with such an object and reported field by field under
\* [i].
PairedByIdKey ==
    [][(AlignCase /\ IdPartners(va.e[li]) # {})
         => \E j \in IdPartners(va.e[li]) : PairedWith(j)]_vars

\* C5 (amended): an object element a[i] without an exact match, when b holds
\* an unconsumed object, is paired with the unconsumed object of b of the
\* highest score (shared keys, plus 10 for each of id, key, name, type held
\* by both with an equal value), the earliest on a tie, and reported field by
\* field under [i]; an object that shares an identifier-like key is the
\* partner only when no earlier object scores as much.  For
\* [{id:1,name:"a"}] against [{id:1,name:"b"}] the result is one changed entry
\* at "[0].name" from "a" to "b" and one same entry at "[0].id".
PairedByScore ==
    /\ [][(AlignCase /\ FreeObjects # {}) => PairedWith(BestPartner(va.e[li]))]_vars
    /\ []((active = "align" /\ hpc = "done" /\ va = ExampleA /\ vb = ExampleB)
            => res = [added |-> <<>>, removed |-> <<>>,
                      changed |-> <<[path |-> <<"[", "0", "]", ".", "n", "a", "m", "e">>, from |-> Str(<<"a">>), to |-> Str(<<"b">>)]>>,
                      same |-> <<[path |-> <<"[", "0", "]", ".", "i", "d">>, value |-> Num(1)]>>])

\* the first element of a, an object, was paired with the second element of
\* b, which shares its id, though the first element of b is an object too
PairedWitness ==
    /\ active = "align" /\ hpc = "loop" /\ li = 2 /\ usedB = {2}
    /\ isPlainObj(va.e[1]) /\ isPlainObj(vb.e[1]) /\ isPlainObj(vb.e[2])
    /\ sortKey(va.e[1]) # sortKey(vb.e[2])
    /\ SharesIdKey(va.e[1], vb.e[2])
    /\ ClaimedScore(va.e[1], vb.e[2]) > ClaimedScore(va.e[1], vb.e[1])
    /\ diffs.changed # <<>> /\ diffs.removed = <<>>

(* Totality of deepDiff *)

\* the nesting depth of a value: 0 for a scalar
RECURSIVE Depth(_)
RECURSIVE MaxDepth(_)
MaxDepth(vs) ==
    IF vs = <<>> THEN 0
    ELSE LET d == Depth(vs[1])
             m == MaxDepth(Tail(vs))
         IN IF d > m THEN d ELSE m
Depth(v) ==
    IF IsArray(v) THEN 1 + MaxDepth(v.e)
    ELSE IF isPlainObj(v) THEN 1 + MaxDepth(v.v)
    ELSE 0

\* the number of steps (a key or an index) a path takes from the root
Steps(path) ==
    IF path = RootPath THEN 0
    ELSE Cardinality({i \in 1..Len(path) : path[i] \in {"[", "."}})
         + (IF path[1] = "[" THEN 0 ELSE 1)

IsPath(p) == p \in Seq(SeqToSet(CharOrder)) /\ p # <<>>

\* the entries are records with a path and a value no deeper than what is
\* left of the input after the steps of the path
ValueEntries(entries, input) ==
    \A i \in 1..Len(entries) :
        /\ DOMAIN entries[i] = {"path", "value"}
        /\ IsPath(entries[i].path)
        /\ Depth(entries[i].value) + Steps(entries[i].path) <= Depth(input)

ChangedEntries(entries) ==
    \A i \in 1..Len(entries) :
        /\ DOMAIN entries[i] = {"path", "from", "to"}
        /\ IsPath(entries[i].path)
        /\ Depth(entries[i].from) + Steps(entries[i].path) <= Depth(va)
        /\ Depth(entries[i].to) + Steps(entries[i].path) <= Depth(vb)

\* C8: for every pair of values, of any kinds, deepDiff returns a DiffResult:
\* four sequences of entries; and it recurses on strictly smaller values: an
\* entry reported n steps below the root carries a value of a (removed, same,
\* from) or of b (added, to) that is at least n levels less deep than the
\* input.
Totality ==
    DiffDone =>
        /\ DOMAIN res = Categories
        /\ ValueEntries(res.added, vb)
        /\ ValueEntries(res.removed, va)
        /\ ValueEntries(res.same, va)
        /\ ChangedEntries(res.changed)

\* two values three levels deep have been compared, and a difference is
\* reported three steps below the root
TotalityWitness ==
    /\ DiffDone
    /\ Depth(va) = 3 /\ Depth(vb) = 3
    /\ \E i \in 1..Len(res.changed) : Steps(res.changed[i].path) = 3

(* Properties of the two analysis pipelines *)

\* both sides of the array comparison parse
ArraysParse == safeParse(array1).ok /\ safeParse(array2).ok

\* both sides of the object comparison parse to an object or an array
ObjectsParse ==
    /\ smartParse(raw1).ok /\ smartParse(raw2).ok
    /\ smartParse(raw1).value.t \in {"arr", "obj"}
    /\ smartParse(raw2).value.t \in {"arr", "obj"}

\* C9: after any sequence of edits and analyses, an error and a result are
\* never both present, and a result is present only when both sides parse: a
\* parse failure on either side leaves the error and no result.
AtomicAbort ==
    /\ ~(error # NoError /\ results # NoResult)
    /\ ~(parseError # NoError /\ oresults # NoResult)
    /\ results # NoResult => ArraysParse
    /\ oresults # NoResult => ObjectsParse

\* an analysis has failed on side B, side A being a valid array: the error
\* is shown and there is no result
AtomicAbortWitness ==
    /\ active = "array"
    /\ safeParse(array1).ok /\ Trim(array2) # <<>> /\ ~safeParse(array2).ok
    /\ error # NoError /\ results = NoResult

\* the messages that name a side
NamesSide(e) ==
    e.message \in {"Object A is not a valid object or array",
               "Object B is not a valid object or array"}

\* C10: whenever a comparison fails because an input cannot be parsed, the
\* error reported identifies the side, A or B, that failed.
ErrorNamesSide ==
    /\ error # NoError => NamesSide(error)
    /\ parseError # NoError => NamesSide(parseError)

(* The report of analyzeArrays for a pair of arrays, its diff left out *)

\* [1, 1, 2, "x", "x", "x"]
DupExample == Arr(<<Num(1), Num(1), Num(2), Str(<<"x">>), Str(<<"x">>), Str(<<"x">>)>>)

SetInputs ==
    (BagArrays \X BagArrays) \cup (StructArrays \X StructArrays)
    \cup {<<DupExample, DupExample>>, <<DupExample, BagExampleA>>}

InitSets ==
    /\ active = "sets"
    /\ \E p \in SetInputs : va = p[1] /\ vb = p[2]
    /\ hpc = "input" /\ res = NoResult /\ ckeys = NoResult
    /\ li = 1 /\ usedB = {} /\ diffs = EmptyDiff
    /\ InitFields

Summarize ==
    /\ active = "sets" /\ hpc = "input"
    /\ res' = [length1 |-> Len(va.e), length2 |-> Len(vb.e),
               uniqueLength1 |-> Cardinality(KeySet(va.e)),
               uniqueLength2 |-> Cardinality(KeySet(vb.e)),
               duplicates1 |-> findDuplicates(va.e), duplicates2 |-> findDuplicates(vb.e),
               areIdentical |-> arraysAreIdentical(va.e, vb.e),
               sameUniqueElements |-> sameUniqueSet(va.e, vb.e)]
    /\ hpc' = "done"
    /\ UNCHANGED <<active, va, vb, ckeys, li, usedB, diffs, arrVars, objVars>>

NextSets == Summarize

SpecSets == InitSets /\ [][NextSets]_vars

(* C11: findDuplicates *)

SetsDone == active = "sets" /\ hpc = "done"

\* the index of the first element whose canonical key is k, keys being the
\* canonical keys of the elements of an array
FirstIndex(keys, k) ==
    CHOOSE i \in 1..Len(keys) : keys[i] = k /\ \A j \in 1..(i - 1) : keys[j] # k

DupsOf(arr, d) ==
    LET keys == [i \in 1..Len(arr) |-> sortKey(arr[i])]
        dkeys == [n \in 1..Len(d) |-> sortKey(d[n].item)]
        occ(k) == Cardinality({i \in 1..Len(arr) : keys[i] = k})
    IN /\ \A i \in 1..Len(arr) :
             Cardinality({n \in 1..Len(d) : dkeys[n] = keys[i]})
                 = IF occ(keys[i]) >= 2 THEN 1 ELSE 0
       /\ \A n \in 1..Len(d) :
             /\ \E i \in 1..Len(arr) : keys[i] = dkeys[n]
             /\ d[n].count = occ(dkeys[n])
             /\ d[n].item = arr[FirstIndex(keys, dkeys[n])]
       /\ \A n, m \in 1..Len(d) :
             n < m => FirstIndex(keys, dkeys[n]) < FirstIndex(keys, dkeys[m])

\* C11: findDuplicates(arr) holds exactly one entry for every canonical key
\* that occurs at least twice in arr and none for any other key; the entry's
\* count is the number of occurrences of the key, its item is the first
\* element of arr with that key, and the entries stand in the order in which
\* their keys first occur; [1,1,2,"x","x","x"] gives item 1 with count 2 and
\* then item "x" with count 3.
DuplicatesPerKey ==
    SetsDone =>
        /\ DupsOf(va.e, res.duplicates1)
        /\ va = DupExample =>
              res.duplicates1 = <<[item |-> Num(1), count |-> 2],
                                  [item |-> Str(<<"x">>), count |-> 3]>>

DuplicatesWitness ==
    /\ SetsDone /\ va = DupExample
    /\ Len(res.duplicates1) = 2 /\ res.duplicates1[2].count = 3

(* C12: arraysAreIdentical *)

\* C12: arraysAreIdentical(a, b) is true exactly when a and b have the same
\* length and at every index the two elements have the same canonical key:
\* elements that differ only in the order of their keys do not matter, the
\* order of the elements does.
IdenticalPositional ==
    SetsDone =>
        /\ res.areIdentical <=>
              /\ Len(va.e) = Len(vb.e)
              /\ \A i \in 1..Len(va.e) : i <= Len(vb.e) /\ sortKey(va.e[i]) = sortKey(vb.e[i])
        /\ SamePairs(va, vb) => res.areIdentical
        /\ res.areIdentical => SamePairs(va, vb)

IdenticalWitness ==
    /\ SetsDone /\ va # vb /\ res.areIdentical
    /\ Len(va.e) = 2 /\ ~arraysAreIdentical(va.e, <<vb.e[2], vb.e[1]>>)

(* C13: sameUniqueSet *)

\* C13: sameUniqueSet(a, b) is true exactly when every canonical key of an
\* element of a is the key of an element of b and the other way round,
\* however often and in whatever order the keys occur.
SameSetOfKeys ==
    SetsDone =>
        res.sameUniqueElements <=>
            /\ \A i \in 1..Len(va.e) : \E j \in 1..Len(vb.e) : sortKey(va.e[i]) = sortKey(vb.e[j])
            /\ \A j \in 1..Len(vb.e) : \E i \in 1..Len(va.e) : sortKey(va.e[i]) = sortKey(vb.e[j])

SameSetWitness ==
    /\ SetsDone /\ res.sameUniqueElements /\ ~res.areIdentical
    /\ Len(va.e) = 3 /\ Len(vb.e) = 2 /\ vb.e[1] = va.e[3]

(* safeParse(raw1) and smartParse(raw1) run one tier a step *)

\* how a literal is written: the quote of its strings, whether its keys
\* are left bare, whether a comma follows the last element
Styles == [quote : {"'", "\""}, bare : BOOLEAN, trail : BOOLEAN]

WriteString(s, st) == IF st.quote = "'" THEN <<"'">> \o s \o <<"'">> ELSE JsonQuote(s)

RECURSIVE Write(_, _)
Write(v, st) ==
    IF v = Null THEN <<"n", "u", "l", "l">>
    ELSE IF v = Undefined THEN <<"u", "n", "d", "e", "f", "i", "n", "e", "d">>
    ELSE IF v = NaN THEN <<"N", "a", "N">>
    ELSE IF v = PosInfinity THEN <<"I", "n", "f", "i", "n", "i", "t", "y">>
    ELSE IF v = NegInfinity THEN <<"-", "I", "n", "f", "i", "n", "i", "t", "y">>
    ELSE IF v.t = "bool" THEN (IF v.b THEN <<"t", "r", "u", "e">> ELSE <<"f", "a", "l", "s", "e">>)
    ELSE IF v.t = "num" THEN NumStr(v.n)
    ELSE IF v.t = "str" THEN WriteString(v.s, st)
    ELSE IF IsArray(v)
    THEN <<"[">> \o Join([i \in 1..Len(v.e) |-> Write(v.e[i], st)], <<",", " ">>)
         \o (IF st.trail /\ v.e # <<>> THEN <<",">> ELSE <<>>) \o <<"]">>
    ELSE <<"{">>
         \o Join([i \in 1..Len(v.k) |->
                    (IF st.bare THEN v.k[i] ELSE WriteString(v.k[i], st))
                    \o <<":", " ">> \o Write(v.v[i], st)], <<",", " ">>)
         \o (IF st.trail /\ v.k # <<>> THEN <<",">> ELSE <<>>) \o <<"}">>

kKey == <<"k", "e", "y">>
kArr == <<"a", "r", "r">>

\* values of the JSON kinds whose strings and keys hold letters, digits and
\* blanks only; {key: "val", arr: [1, 2]} is the worked example
PlainLiterals ==
    {Num(1), Str(<<"a">>), Arr(<<>>), Obj(<<>>, <<>>),
     Arr(<<Num(1), Num(2)>>), Arr(<<Str(<<"a">>), Str(<<"b", " ", "c">>)>>),
     Arr(<<Null, Bool(TRUE), Num(-1)>>),
     Obj(<<kKey, kArr>>, <<Str(<<"v", "a", "l">>), Arr(<<Num(1), Num(2)>>)>>),
     Arr(<<Obj(<<kId, kName>>, <<Num(1), Str(<<"a">>)>>)>>),
     Arr(<<Arr(<<Num(1)>>), Obj(<<kX>>, <<Arr(<<>>)>>)>>),
     Obj(<<kX>>, <<Obj(<<kY>>, <<Str(<<"a">>)>>)>>),
     Obj(<<kX>>, <<Bool(FALSE)>>),
     Arr(<<Str(<<"u", "n", "d", "e", "f", "i", "n", "e", "d">>), Str(<<"I", "n", "f", "i", "n", "i", "t", "y">>)>>),
     Obj(<<<<"u", "n", "d", "e", "f", "i", "n", "e", "d">>, <<"I", "n", "f", "i", "n", "i", "t", "y">>>>, <<Num(1), Str(<<"n", "u", "l", "l">>)>>)}

\* values of the JSON kinds whose strings hold a quote or punctuation
AwkwardLiterals ==
    {Arr(<<Str(<<"a", ",", "]">>)>>), Arr(<<Str(<<"a", "\"", "b">>)>>), Arr(<<Str(<<"i", "t", "'", "s">>)>>),
     Obj(<<kX>>, <<Str(<<",", "y", ":">>)>>), Arr(<<Str(<<"_", "_", "U", "N", "D", "E", "F", "I", "N", "E", "D", "_", "_">>)>>)}

\* values that hold undefined, Infinity, -Infinity or NaN
SentinelLiterals ==
    {Arr(<<Undefined>>), Arr(<<Num(1), Undefined>>), Arr(<<PosInfinity>>),
     Arr(<<Undefined, PosInfinity, NegInfinity>>), Arr(<<NaN>>),
     Obj(<<kX>>, <<Undefined>>), Obj(<<kX>>, <<PosInfinity>>), Obj(<<kX>>, <<NegInfinity>>),
     Arr(<<Obj(<<kX>>, <<Undefined>>)>>), Arr(<<Obj(<<kX>>, <<PosInfinity>>)>>),
     Arr(<<Obj(<<kX, kY>>, <<NegInfinity, Num(1)>>)>>),
     Obj(<<kX, kY>>, <<Arr(<<Undefined>>), NegInfinity>>)}

Literals == PlainLiterals \cup AwkwardLiterals \cup SentinelLiterals

RECURSIVE StringsIn(_)
StringsIn(v) ==
    IF v.t = "str" THEN {v.s}
    ELSE IF IsArray(v) THEN UNION {StringsIn(v.e[i]) : i \in 1..Len(v.e)}
    ELSE IF isPlainObj(v)
    THEN {v.k[i] : i \in 1..Len(v.k)} \cup UNION {StringsIn(v.v[i]) : i \in 1..Len(v.v)}
    ELSE {}

\* the style st can write v: a string between single quotes holds neither a
\* single quote nor a backslash
Writable(v, st) ==
    st.quote = "'" => \A s \in StringsIn(v) : \A i \in 1..Len(s) : s[i] \notin {"'", "\\"}

\* {key: 'val', arr: [1,2,]}
RelaxedExample == <<"{", "k", "e", "y", ":", " ", "'", "v", "a", "l", "'", ",", " ", "a", "r", "r", ":", " ", "[", "1", ",", "2", ",", "]", "}">>

ParseTexts ==
    UNION {{Write(v, st) : st \in {s \in Styles : Writable(v, s)}} : v \in Literals}
    \cup Texts
    \cup {RelaxedExample, <<"{", "\"", "a", "\"", ":", "\"", "b", "'", "}">>, <<"[", "1", ",", ",", "]">>, <<"{", "a", ":", " ", "1">>, <<"'", "a", "'">>, <<" ", "N", "a", "N", " ">>}

InitParse ==
    /\ active \in {"safeParse", "smartParse"}
    /\ raw1 \in ParseTexts
    /\ hpc = "start" /\ li = 1 /\ res = NoResult
    /\ va = Null /\ vb = Null /\ ckeys = NoResult /\ usedB = {} /\ diffs = EmptyDiff
    /\ array1 = <<>> /\ array2 = <<>> /\ results = NoResult /\ error = NoError
    /\ raw2 = <<>> /\ oresults = NoResult /\ parseError = NoError /\ wasSorted = FALSE

Parsing == active \in {"safeParse", "smartParse"}

\* const trimmed = raw.trim(); if (!trimmed) throw new Error(...)
ParseStart ==
    /\ Parsing /\ hpc = "start"
    /\ IF Trim(raw1) = <<>>
       THEN /\ hpc' = "thrown"
            /\ res' = [ok |-> FALSE,
                       msg |-> IF active = "safeParse" THEN "Empty input." ELSE "Empty input"]
       ELSE hpc' = "tier" /\ res' = res
    /\ UNCHANGED <<active, va, vb, ckeys, li, usedB, diffs, arrVars, objVars>>

\* the first try block: JSON.parse(trimmed)
TryStrict ==
    /\ Parsing /\ hpc = "tier" /\ li = 1
    /\ \E p \in {JSONparse(Trim(raw1))} :
          IF active = "safeParse"
          THEN IF p.ok /\ IsArray(p.v)
               THEN hpc' = "returned" /\ li' = li
                    /\ res' = [ok |-> TRUE, value |-> p.v, tier |-> 1]
               ELSE hpc' = hpc /\ li' = 2 /\ res' = res
          ELSE IF p.ok
               THEN hpc' = "returned" /\ li' = li
                    /\ res' = [ok |-> TRUE, value |-> p.v, format |-> "json"]
               ELSE hpc' = hpc /\ li' = 2 /\ res' = res
    /\ UNCHANGED <<active, va, vb, ckeys, usedB, diffs, arrVars, objVars>>

\* the second try block: the text rewritten by the regular expressions and
\* handed to JSON.parse
TryRelaxed ==
    /\ Parsing /\ hpc = "tier" /\ li = 2
    /\ IF active = "safeParse"
       THEN \E p \in {JSONparse(preprocessJS(Trim(raw1)))} :
               IF p.ok /\ IsArray(p.v)
               THEN hpc' = "returned" /\ li' = li
                    /\ res' = [ok |-> TRUE, value |-> revive(p.v), tier |-> 2]
               ELSE hpc' = hpc /\ li' = 3 /\ res' = res
       ELSE \E p \in {JSONparse(smartFix(Trim(raw1)))} :
               IF p.ok
               THEN hpc' = "returned" /\ li' = li
                    /\ res' = [ok |-> TRUE, value |-> p.v, format |-> "js"]
               ELSE hpc' = hpc /\ li' = 3 /\ res' = res
    /\ UNCHANGED <<active, va, vb, ckeys, usedB, diffs, arrVars, objVars>>

\* the third try block: the text evaluated as an expression, and the catch
\* that rethrows
TryEval ==
    /\ Parsing /\ hpc = "tier" /\ li = 3
    /\ \E p \in {EvalLiteral(Trim(raw1))} :
          IF active = "safeParse"
          THEN IF p.ok /\ IsArray(p.v)
               THEN hpc' = "returned" /\ res' = [ok |-> TRUE, value |-> p.v, tier |-> 3]
               ELSE /\ hpc' = "thrown"
                    /\ res' = [ok |-> FALSE,
                               msg |-> "Invalid format: "
                                       \o (IF p.ok THEN "Input is not an array." ELSE EvalErrorMessage)]
          ELSE IF p.ok /\ p.v.t \in {"arr", "obj"}
               THEN hpc' = "returned" /\ res' = [ok |-> TRUE, value |-> p.v, format |-> "js-eval"]
               ELSE /\ hpc' = "thrown"
                    /\ res' = [ok |-> FALSE,
                               msg |-> "Could not parse input as JSON or JS object: "
                                       \o (IF p.ok THEN "Not an object" ELSE EvalErrorMessage)]
    /\ UNCHANGED <<active, va, vb, ckeys, li, usedB, diffs, arrVars, objVars>>

NextParse == ParseStart \/ TryStrict \/ TryRelaxed \/ TryEval

SpecParse == InitParse /\ [][NextParse]_vars

\* the machine ends with what the functions return
ParseAgrees ==
    Parsing /\ hpc \in {"returned", "thrown"} =>
        res = IF active = "safeParse" THEN safeParse(raw1) ELSE smartParse(raw1)

(* C14: relaxed syntax is accepted at the second tier *)

ParseDone == Parsing /\ hpc \in {"returned", "thrown"}

RECURSIVE JsonKind(_)
JsonKind(v) ==
    IF IsArray(v) THEN \A i \in 1..Len(v.e) : JsonKind(v.e[i])
    ELSE IF isPlainObj(v) THEN \A i \in 1..Len(v.v) : JsonKind(v.v[i])
    ELSE v.t \in {"null", "bool", "num", "str"}

PlainStrings(v) ==
    \A s \in StringsIn(v) :
        \A i \in 1..Len(s) : (IsIdChar(s[i]) /\ s[i] \notin {"_", "$"}) \/ s[i] = " "

\* the Values v of a set whose relaxed writing is the text being parsed, the
\* text not being strict JSON
WrittenRelaxed(S) ==
    {v \in S : /\ JsonKind(v)
               /\ ~JSONparse(raw1).ok
               /\ \E st \in Styles : Writable(v, st) /\ raw1 = Write(v, st)}

\* the text was accepted at the second tier with value v; safeParse does so
\* for arrays only
SecondTier(v) ==
    IF active = "smartParse" THEN res = [ok |-> TRUE, value |-> v, format |-> "js"]
    ELSE IsArray(v) => res = [ok |-> TRUE, value |-> v, tier |-> 2]

ExampleValue == Obj(<<kKey, kArr>>, <<Str(<<"v", "a", "l">>), Arr(<<Num(1), Num(2)>>)>>)

\* C14 as stated: a text that differs from strict JSON only by single-quoted
\* strings, bare identifier keys and trailing commas is accepted at the second
\* tier with the value of its strict-JSON equivalent, whatever its strings hold.
RelaxedAnyStrings ==
    ParseDone => \A v \in WrittenRelaxed(Literals) : SecondTier(v)

\* C14: a text that differs from strict JSON only by single-quoted strings,
\* bare identifier keys and trailing commas, and whose strings and keys hold
\* letters, digits and blanks only, is accepted at the second tier with the
\* value of its strict-JSON equivalent;
\* {key: 'val', arr: [1,2,]} is accepted there as {key: "val", arr: [1, 2]}.
RelaxedPlainStrings ==
    ParseDone =>
        /\ \A v \in WrittenRelaxed({w \in Literals : PlainStrings(w)}) : SecondTier(v)
        /\ raw1 = RelaxedExample /\ active = "smartParse" =>
              res = [ok |-> TRUE, value |-> ExampleValue, format |-> "js"]

RelaxedWitness ==
    /\ active = "safeParse" /\ hpc = "returned" /\ li = 2
    /\ raw1 = <<"[", "{", "i", "d", ":", " ", "1", ",", " ", "n", "a", "m", "e", ":", " ", "'", "a", "'", ",", "}", ",", "]">>
    /\ res.value = Arr(<<Obj(<<kId, kName>>, <<Num(1), Str(<<"a">>)>>)>>)

(* C15: undefined, Infinity and -Infinity at the second tier *)

\* C15: when a text is accepted at the second tier, every undefined,
\* Infinity and -Infinity written where a value stands is parsed to
\* Undefined, PosInfinity and NegInfinity, never to Null or to a string: the
\* value returned for the writing of a Value is that Value.
SentinelsRevived ==
    Parsing /\ hpc = "returned" /\ li = 2 =>
        \A v \in {w \in Literals : PlainStrings(w)} :
            (\E st \in Styles : Writable(v, st) /\ raw1 = Write(v, st)) => res.value = v

(* C16: the order of the tiers *)

\* the text handed to JSON.parse by the tier n (1 or 2) parses
TierParses(n) ==
    IF n = 1 THEN JSONparse(Trim(raw1)).ok
    ELSE IF active = "safeParse" THEN JSONparse(preprocessJS(Trim(raw1))).ok
    ELSE JSONparse(smartFix(Trim(raw1))).ok

\* C16: the tiers are tried in the order strict JSON, relaxed
\* normalization, expression evaluation, and the parser stops at the first
\* tier that parses the text: it goes on to the next tier only from a tier
\* that failed to parse the text.
TierOrder ==
    [][Parsing /\ hpc = "tier" /\ li < 3 =>
          IF TierParses(li) THEN hpc' = "returned" /\ li' = li
          ELSE hpc' = "tier" /\ li' = li + 1]_vars

(* C17: a text that is not an array, in ArrayDiffChecker *)

\* the value of the first tier that parses the text, Fail if none does
FirstParse ==
    LET p1 == JSONparse(Trim(raw1))
        p2 == JSONparse(preprocessJS(Trim(raw1)))
        p3 == EvalLiteral(Trim(raw1))
    IN IF p1.ok THEN p1 ELSE IF p2.ok THEN p2 ELSE p3

\* C17: safeParse never returns a value that is not an array, and whenever
\* the text parses to a value that is not an array it throws the error that
\* says so, "Input is not an array.", not the error of a text that does not
\* parse.
NotAnArrayReported ==
    active = "safeParse" /\ ParseDone /\ Trim(raw1) # <<>> =>
        /\ res.ok => IsArray(res.value)
        /\ FirstParse.ok /\ ~IsArray(FirstParse.v) =>
              res = [ok |-> FALSE, msg |-> "Invalid format: Input is not an array."]

(* normalizeKeyOrder applied to a Value, and then to what it returned *)

NormPool ==
    KeyPool \cup MixedPool \cup StructArrays \cup
    {Obj(<<kX>>, <<Obj(<<kName, kId>>, <<Str(<<"a">>), Num(1)>>)>>),
     Obj(<<<<"1">>, <<"a">>>>, <<Num(1), Num(2)>>),
     Obj(<<<<"9">>, <<"1", "0">>>>, <<Num(1), Num(2)>>),
     Arr(<<Obj(<<<<"2">>, <<"1", "1">>, kX>>, <<Num(1), Num(2), Num(3)>>)>>)}

InitNorm ==
    /\ active = "norm"
    /\ va \in NormPool /\ vb = Null
    /\ hpc = "input" /\ res = NoResult /\ ckeys = NoResult
    /\ li = 1 /\ usedB = {} /\ diffs = EmptyDiff
    /\ InitFields

\* normalizeKeyOrder(va)
Normalize ==
    /\ active = "norm" /\ hpc = "input"
    /\ res' = normalizeKeyOrder(va)
    /\ hpc' = "once"
    /\ UNCHANGED <<active, va, vb, ckeys, li, usedB, diffs, arrVars, objVars>>

\* normalizeKeyOrder applied to the value it returned, kept in vb
NormalizeAgain ==
    /\ active = "norm" /\ hpc = "once"
    /\ vb' = res.sorted
    /\ res' = normalizeKeyOrder(res.sorted)
    /\ hpc' = "twice"
    /\ UNCHANGED <<active, va, ckeys, li, usedB, diffs, arrVars, objVars>>

NextNorm == Normalize \/ NormalizeAgain

SpecNorm == InitNorm /\ [][NextNorm]_vars

(* C18: normalizeKeyOrder *)

\* some object inside v has its keys in an order that is not alphabetical
RECURSIVE Unsorted(_)
Unsorted(v) ==
    IF IsArray(v) THEN \E i \in 1..Len(v.e) : Unsorted(v.e[i])
    ELSE IF isPlainObj(v)
    THEN \/ \E i \in 1..(Len(v.k) - 1) : ~StrLess(v.k[i], v.k[i + 1])
         \/ \E i \in 1..Len(v.v) : Unsorted(v.v[i])
    ELSE FALSE

\* C18: normalizeKeyOrder reports changed = true exactly when some object
\* inside the value has its keys in non-alphabetical order; for a value whose
\* objects all have sorted keys it returns that value and changed = false;
\* and applied to the value it returned it reports changed = false.
KeyOrderChanged ==
    active = "norm" =>
        /\ hpc = "once" =>
              /\ res.changed <=> Unsorted(va)
              /\ ~Unsorted(va) => res = [sorted |-> va, changed |-> FALSE]
        /\ hpc = "twice" => res = [sorted |-> vb, changed |-> FALSE]

(* C19: exact matching and similarity pairing *)

\* the number of elements among the first n of arr whose canonical key is k
CountUpTo(arr, n, k) == Cardinality({i \in 1..n : sortKey(arr[i]) = k})

\* C19: in the alignment branch exact matching is complete before any
\* similarity pairing.  An iteration never consumes for a[i] an element of b
\* that is not equal to a[i] but is equal to a later element of a, which is
\* still unmatched; and in the result every element of a is reported same at
\* its index when b holds its canonical key at least as often as a holds it up
\* to that index, as the procedure of three passes (exact pairs, similarity
\* pairs, leftovers) reports it.
ExactBeforeSimilar ==
    /\ [][(active = "align" /\ hpc = "loop" /\ li <= Len(va.e)) =>
             \A j \in (usedB' \ usedB) :
                 sortKey(vb.e[j]) # sortKey(va.e[li]) =>
                     \A i2 \in (li + 1)..Len(va.e) : sortKey(va.e[i2]) # sortKey(vb.e[j])]_vars
    /\ []((active = "align" /\ hpc = "done") =>
             \A i \in 1..Len(va.e) :
                 CountUpTo(va.e, i, sortKey(va.e[i])) <= CountUpTo(vb.e, Len(vb.e), sortKey(va.e[i]))
                     => \E n \in 1..Len(res.same) :
                            res.same[n] = [path |-> IndexPath(<<>>, <<>>, i - 1), value |-> va.e[i]])

(* C20: the choice between the two branches of diffArrays *)

IsScalar(v) == v.t \in {"null", "undefined", "nan", "inf", "neginf", "bool", "num", "str"}

\* the character after the opening bracket of a path
Mark(entry) == entry.path[2]

\* the set-based branch ran: nothing is changed, what a alone holds is
\* removed under "[-n]", what b alone holds is added under "[+n]", and every
\* element of a and of b is counted once
BagShape ==
    /\ res.changed = <<>>
    /\ \A n \in 1..Len(res.removed) : Mark(res.removed[n]) = "-"
    /\ \A n \in 1..Len(res.added) : Mark(res.added[n]) = "+"
    /\ Len(res.same) + Len(res.removed) = Len(va.e)
    /\ Len(res.same) + Len(res.added) = Len(vb.e)

\* the alignment branch ran: every path starts with an index of a or b,
\* and a scalar element is handled as the others are: same or removed at its
\* index in a, and added at its index in b when it is added
StructShape ==
    /\ \A c \in {res.added, res.removed, res.changed, res.same} :
          \A n \in 1..Len(c) : Mark(c[n]) \notin {"-", "+"}
    /\ \A i \in 1..Len(va.e) :
          IsScalar(va.e[i]) =>
              \E c \in {res.same, res.removed} : \E n \in 1..Len(c) :
                  c[n] = [path |-> IndexPath(<<>>, <<>>, i - 1), value |-> va.e[i]]
    /\ \A j \in 1..Len(vb.e) :
          IsScalar(vb.e[j]) /\ (\A i \in 1..Len(va.e) : sortKey(va.e[i]) # sortKey(vb.e[j])) =>
              \E n \in 1..Len(res.added) :
                  res.added[n] = [path |-> IndexPath(<<>>, <<>>, j - 1), value |-> vb.e[j]]

\* C20: diffArrays(a, b) takes the set-based branch exactly when every
\* element of a and every element of b is a scalar (null, undefined, a
\* boolean, a number or a string), two empty arrays included; when either
\* array holds an object or an array it aligns all the elements, the scalars
\* among them too.
ModeByContent ==
    DiffDone /\ IsArray(va) /\ IsArray(vb) =>
        IF \A v \in SeqToSet(va.e) \cup SeqToSet(vb.e) : IsScalar(v)
        THEN BagShape
        ELSE StructShape

ModeWitness ==
    /\ DiffDone
    /\ va = Arr(<<Arr(<<>>), Num(1)>>) /\ vb = Arr(<<Num(2)>>)
    /\ res.removed = <<[path |-> <<"[", "0", "]">>, value |-> Arr(<<>>)],
                       [path |-> <<"[", "1", "]">>, value |-> Num(1)]>>
    /\ res.added = <<[path |-> <<"[", "0", "]">>, value |-> Num(2)]>>

(* C21: the partner chosen by similarity *)

\* the iteration is at a composite a[li] that no unconsumed element of b equals
CompositeCase ==
    /\ active = "align" /\ hpc = "loop" /\ li <= Len(va.e)
    /\ va.e[li].t \in {"arr", "obj"}
    /\ \A j \in 1..Len(vb.e) : j \in usedB \/ sortKey(vb.e[j]) # sortKey(va.e[li])

\* the unconsumed elements of b of the kind of x
Candidates(x) == {j \in 1..Len(vb.e) : j \notin usedB /\ vb.e[j].t = x.t}

\* the score of two objects or of two arrays
FullScore(x, y) ==
    IF x.t = "obj" THEN ClaimedScore(x, y)
    ELSE Cardinality({k \in 1..Len(x.e) : k <= Len(y.e) /\ sortKey(x.e[k]) = sortKey(y.e[k])})

\* C21: a composite a[i] without an exact match is paired with an
\* unconsumed element of b of its kind whose score is the maximum, and of
\* those with the maximum score the one of the smallest index; the score of
\* two objects is the number of keys they share plus 10 for each of id, key,
\* name, type that both hold with canonically equal values, the score of two
\* arrays is the number of positions below the shorter length at which their
\* elements are canonically equal.
PairedByMaxScore ==
    [][(CompositeCase /\ Candidates(va.e[li]) # {}) =>
          \E j \in Candidates(va.e[li]) :
              /\ PairedWith(j)
              /\ \A j2 \in Candidates(va.e[li]) :
                    /\ FullScore(va.e[li], vb.e[j]) >= FullScore(va.e[li], vb.e[j2])
                    /\ FullScore(va.e[li], vb.e[j]) = FullScore(va.e[li], vb.e[j2]) => j <= j2]_vars

\* [1,2] was paired with [1,2,1], the third element of b and the one of
\* score 2, though two other arrays of b were unconsumed
MaxScoreWitness ==
    /\ active = "align" /\ va = NestedA /\ vb = NestedB
    /\ li = 2 /\ usedB = {3}

(* C22: what becomes of every index in the alignment branch *)

OwnPath(n) == IndexPath(<<>>, <<>>, n - 1)

\* the outcomes of the iteration at a[li]: matched exactly with b[j], paired
\* by similarity with b[j], or removed
Outcomes ==
    {o \in ({"same", "paired"} \X ((1..Len(vb.e)) \ usedB)) \cup {<<"removed", 0>>} :
        IF o[1] = "same"
        THEN /\ sortKey(vb.e[o[2]]) = sortKey(va.e[li])
             /\ usedB' = usedB \cup {o[2]}
             /\ diffs' = [diffs EXCEPT !.same = Append(@, [path |-> OwnPath(li), value |-> va.e[li]])]
        ELSE IF o[1] = "paired"
        THEN sortKey(vb.e[o[2]]) # sortKey(va.e[li]) /\ PairedWith(o[2])
        ELSE /\ usedB' = usedB
             /\ diffs' = [diffs EXCEPT !.removed = Append(@, [path |-> OwnPath(li), value |-> va.e[li]])]}

\* the number of entries of a sequence at the path p
CountAt(entries, p) == Cardinality({n \in 1..Len(entries) : entries[n].path = p})

\* C22: in the alignment branch every index of a ends in exactly one
\* outcome (same by exact match, paired by similarity and recursed, or
\* removed), an index of b is consumed by at most one element of a, and every
\* index of b that was never consumed gives exactly one added entry, a
\* consumed one none; no element is reported twice at its own level.
EveryIndexOnce ==
    /\ [][(active = "align" /\ hpc = "loop" /\ li <= Len(va.e)) =>
             /\ Cardinality(Outcomes) = 1
             /\ usedB \subseteq usedB' /\ Cardinality(usedB' \ usedB) <= 1]_vars
    /\ []((active = "align" /\ hpc = "done") =>
             /\ \A i \in 1..Len(va.e) :
                   CountAt(res.same, OwnPath(i)) + CountAt(res.removed, OwnPath(i))
                       + CountAt(res.changed, OwnPath(i)) <= 1
             /\ \A j \in 1..Len(vb.e) :
                   /\ CountAt(res.added, OwnPath(j)) = IF j \in usedB THEN 0 ELSE 1
                   /\ j \notin usedB =>
                         \E n \in 1..Len(res.added) :
                             res.added[n] = [path |-> OwnPath(j), value |-> vb.e[j]])

\* 1 was removed, {id:1,name:"a"} was paired with {id:1,name:"b"}, and [1],
\* which nothing consumed, was added
EveryIndexWitness ==
    /\ active = "align" /\ hpc = "done" /\ usedB = {2}
    /\ va = Arr(<<Num(1), Obj(<<kId, kName>>, <<Num(1), Str(<<"a">>)>>)>>)
    /\ vb = Arr(<<Arr(<<Num(1)>>), Obj(<<kId, kName>>, <<Num(1), Str(<<"b">>)>>)>>)
    /\ res.removed = <<[path |-> <<"[", "0", "]">>, value |-> Num(1)]>>
    /\ res.added = <<[path |-> <<"[", "0", "]">>, value |-> Arr(<<Num(1)>>)]>>

(* C23: the paths of the set-based branch *)

\* C23: when both arrays hold scalars only, every entry of the result,
\* same, removed or added, has a path whose suffix cannot be read as a
\* position [n] of an array.
BagPathsSynthetic ==
    (DiffDone /\ IsArray(va) /\ IsArray(vb)
       /\ \A v \in SeqToSet(va.e) \cup SeqToSet(vb.e) : IsScalar(v)) =>
        \A c \in {res.same, res.removed, res.added} :
            \A n \in 1..Len(c) :
                \A m \in 1..(Len(va.e) + Len(vb.e)) : c[n].path # OwnPath(m)

(* C24: what an empty difference says of the two Values *)

\* the canonical key of v with the elements of every array put in the order
\* of their keys: equal for two Values that differ only in the order of
\* object keys and of array elements
RECURSIVE OrderlessKey(_)
OrderlessKey(v) ==
    IF IsArray(v)
    THEN <<"[">> \o Join(SortStrings([i \in 1..Len(v.e) |-> OrderlessKey(v.e[i])]), <<",">>) \o <<"]">>
    ELSE IF isPlainObj(v)
    THEN LET keys == SortStrings(v.k)
         IN <<"{">> \o Join([i \in 1..Len(keys) |->
                               JsonQuote(keys[i]) \o <<":">> \o OrderlessKey(Get(v, keys[i]))],
                            <<",">>) \o <<"}">>
    ELSE stableStringify(v)

IdenticalShowsNoDiff ==
    (DiffDone /\ IsArray(va) /\ IsArray(vb) /\ arraysAreIdentical(va.e, vb.e)) =>
        /\ NothingDiffers
        /\ Len(res.same) = Len(va.e)

\* [{id:1,name:"a"}, {name:"a",id:1}] against [{name:"a",id:1}, {id:1,name:"a"}]
IdenticalNoDiffWitness ==
    /\ DiffDone /\ IsArray(va) /\ IsArray(vb) /\ arraysAreIdentical(va.e, vb.e)
    /\ Len(va.e) = 2 /\ va.e[1] # vb.e[1] /\ va.e[2] # vb.e[2]
    /\ NothingDiffers

(* C26: the counts of the report agree *)

RECURSIVE SumExtra(_)
SumExtra(d) == IF d = <<>> THEN 0 ELSE (d[1].count - 1) + SumExtra(Tail(d))

\* C26: for each of the two arrays, its length less its number of distinct
\* canonical keys is the sum of count - 1 over its duplicate entries; so the
\* array has no duplicate entry exactly when its number of distinct keys is
\* its length.
CountsAgree ==
    SetsDone =>
        /\ res.length1 - res.uniqueLength1 = SumExtra(res.duplicates1)
        /\ res.length2 - res.uniqueLength2 = SumExtra(res.duplicates2)
        /\ res.duplicates1 = <<>> <=> res.uniqueLength1 = res.length1
        /\ res.duplicates2 = <<>> <=> res.uniqueLength2 = res.length2

\* [1,1,2,"x","x","x"]: six elements, three distinct keys, counts 2 and 3
CountsWitness ==
    /\ SetsDone /\ va = DupExample
    /\ res.length1 = 6 /\ res.uniqueLength1 = 3 /\ SumExtra(res.duplicates1) = 3

(* C27: two Values that are not two arrays and not two objects *)

Mismatch(x, y) == ~(IsArray(x) /\ IsArray(y)) /\ ~(isPlainObj(x) /\ isPlainObj(y))

\* one changed entry at p when the canonical keys of x and y differ, one
\* same entry at p when they are equal, and nothing else
OneEntry(x, y, p) ==
    IF stableStringify(x) # stableStringify(y)
    THEN [added |-> <<>>, removed |-> <<>>, same |-> <<>>,
          changed |-> <<[path |-> p, from |-> x, to |-> y]>>]
    ELSE [added |-> <<>>, removed |-> <<>>, changed |-> <<>>,
          same |-> <<[path |-> p, value |-> x]>>]

\* C27: when a and b are not both arrays and not both objects, deepDiff(a, b,
\* path) is exactly one entry: changed with from a and to b when their
\* canonical keys differ, same with value a otherwise.  The entry is at
\* "(root)" when the path is empty, and at the path given otherwise, as under
\* a key that two objects share.
KindMismatch ==
    DiffDone =>
        /\ Mismatch(va, vb) => res = OneEntry(va, vb, <<"(", "r", "o", "o", "t", ")">>)
        /\ isPlainObj(va) /\ isPlainObj(vb) =>
              \A k \in SeqToSet(va.k) \cap SeqToSet(vb.k) :
                  Mismatch(Get(va, k), Get(vb, k)) =>
                      \A c \in Categories :
                          SelectSeq(res[c], LAMBDA e : BelongsTo(e.path, k))
                              = OneEntry(Get(va, k), Get(vb, k), k)[c]

\* [] against {}: one changed entry at "(root)"
KindMismatchWitness ==
    /\ DiffDone /\ va = Arr(<<>>) /\ vb = Obj(<<>>, <<>>)
    /\ res.changed = <<[path |-> <<"(", "r", "o", "o", "t", ")">>, from |-> va, to |-> vb]>>

(* C28: when an element of a is removed *)

\* the iteration is at an a[li] that no unconsumed element of b equals
NoExactCase ==
    /\ active = "align" /\ hpc = "loop" /\ li <= Len(va.e)
    /\ \A j \in 1..Len(vb.e) : j \in usedB \/ sortKey(vb.e[j]) # sortKey(va.e[li])

\* a[li] is reported removed and nothing of b is consumed
Removed ==
    /\ usedB' = usedB
    /\ diffs' = [diffs EXCEPT !.removed = Append(@, [path |-> OwnPath(li), value |-> va.e[li]])]

\* C28: an element a[i] without an exact match is removed exactly when it is
\* a scalar or no unconsumed element of b of its kind (object for an object,
\* array for an array) is left when it is processed; when one is left a[i] is
\* paired with one and recursed, also when the score is 0.
RemovedOnlyWithoutPartner ==
    [][NoExactCase =>
          IF va.e[li].t \in {"arr", "obj"} /\ Candidates(va.e[li]) # {}
          THEN ~Removed /\ \E j \in Candidates(va.e[li]) : PairedWith(j)
          ELSE Removed]_vars

\* [1,2] was paired with [2,1], whose score is 0: nothing was removed
ZeroScoreWitness ==
    /\ active = "align" /\ va = NestedA /\ vb = NestedZero
    /\ li = 2 /\ usedB = {1} /\ diffs.removed = <<>> /\ Len(diffs.same) = 2

(* C29: no stale result *)

\* the Value a text parses to, NoResult when it does not parse
ParsedArray(t) == LET p == safeParse(t) IN IF p.ok THEN p.value ELSE NoResult
ParsedObject(t) == LET p == smartParse(t) IN IF p.ok THEN p.value ELSE NoResult

\* C29: after any sequence of edits, quote replacements, auto-fixes, blurs
\* and analyses, a result that is present is the analysis of what the two
\* fields hold now; and every step that changes what a field parses to leaves
\* no result, so a step that changes a text and leaves a result has not
\* changed what the text parses to.
NoStaleResult ==
    /\ [](/\ results # NoResult =>
                /\ ArraysParse
                /\ results = Analysis(ParsedArray(array1), ParsedArray(array2))
          /\ oresults # NoResult =>
                /\ ObjectsParse
                /\ oresults = deepDiff(normalizeKeyOrder(ParsedObject(raw1)).sorted,
                                       normalizeKeyOrder(ParsedObject(raw2)).sorted, <<>>))
    /\ [][/\ (results' # NoResult /\ (array1' # array1 \/ array2' # array2)) =>
                <<ParsedArray(array1'), ParsedArray(array2')>>
                    = <<ParsedArray(array1), ParsedArray(array2)>>
          /\ (oresults' # NoResult /\ (raw1' # raw1 \/ raw2' # raw2)) =>
                <<ParsedObject(raw1'), ParsedObject(raw2')>>
                    = <<ParsedObject(raw1), ParsedObject(raw2)>>]_vars

\* a result is shown for a field that a blur has trimmed
NoStaleWitness ==
    /\ active = "array" /\ results # NoResult
    /\ array1 = <<"[", "1", ",", " ", "2", "]">> /\ array2 = <<"[", "2", ",", "1", "]">>
    /\ results.diff.removed = <<>>

(* C30: normalizeKeyOrder keeps the meaning of a value *)

\* every array inside w has the elements of the array at the same place in v,
\* one for one and in the same order
RECURSIVE SameArrayOrder(_, _)
SameArrayOrder(v, w) ==
    IF IsArray(v)
    THEN /\ IsArray(w) /\ Len(w.e) = Len(v.e)
         /\ \A i \in 1..Len(v.e) :
               /\ stableStringify(w.e[i]) = stableStringify(v.e[i])
               /\ SameArrayOrder(v.e[i], w.e[i])
    ELSE IF isPlainObj(v)
    THEN /\ isPlainObj(w)
         /\ \A i \in 1..Len(v.k) :
               /\ HasKey(w, v.k[i])
               /\ SameArrayOrder(v.v[i], Get(w, v.k[i]))
    ELSE w = v

\* what normalizeKeyOrder was last applied to
NormInput == IF hpc = "twice" THEN vb ELSE va

====
